---- MODULE Spec2Model ----
(***************************************************************************)
(* Model of ChartDrawer.py: the per-nuclide drawing routine draw_nuclide   *)
(* and the main program around it.                                         *)
(*                                                                         *)
(* Spec studies draw_nuclide on one record at a time, over a wide range of *)
(* decay lists, half-lives and isomers.  SpecMain runs the whole program   *)
(* (loading, the main loop with its bookkeeping, target borders, magic     *)
(* lines, axis numbers) on short data files of light nuclides.             *)
(*                                                                         *)
(* Python strings are sequences of one-character strings, so that          *)
(* concatenation, stripping, substring search, regular-expression matching *)
(* and number parsing/formatting are computed and not assumed.  Colours    *)
(* are only ever compared, so they stay atomic strings.                    *)
(***************************************************************************)
EXTENDS Integers, Sequences, FiniteSets, TLC

VARIABLES
    nuclide,    \* the record being processed (decay_modes is mutable)
    args,       \* the option flags: names, halflives, isomers, unknown
    is_isomer,  \* the main loop's flag, passed to draw_nuclide
    pc,         \* "main": before the isomer scan; "draw": at the call
    calls,      \* number of draw_nuclide calls made on the record
    before,     \* nuclide.decay_modes as the latest call received it
    drawn,      \* the draw calls the latest call issued, in order
    raised,     \* the exception that left the latest call, or "none"
    locals,     \* the latest call's locals when it ended
    first,      \* before, drawn and locals of the first call
    datafile,   \* the nuclides of the input document, in document order
    data,       \* what load_xml_nuclear_table returned
    cursor,     \* index in data of the next nuclide of the main loop
    individual_products,    \* the entries of --p, in iteration order
    individual_targets,     \* the entries of --t, in iteration order
    n_limits,   \* <<lowest, highest>> N loaded (Python indices 0, 1)
    z_limits,   \* <<lowest, highest>> Z loaded
    shape,      \* shape[n][z], both indices from 0: cell occupied
    n_magic,    \* dict N -> [Z, Z], as a sequence in insertion order
    z_magic,    \* dict Z -> [N, N]
    n_targets,  \* dict N -> [Z, Z]
    z_targets,  \* dict key -> [N, N]
    Z_counter,  \* the main program's counter of shifted z_targets keys
    chart       \* the draw calls made after the main loop, in order

mainvars == <<datafile, data, cursor, individual_products, individual_targets,
              n_limits, z_limits, shape, n_magic, z_magic, n_targets,
              z_targets, Z_counter, chart>>

vars == <<nuclide, args, is_isomer, pc, calls, before, drawn, raised, locals,
          first, mainvars>>

(***************************************************************************)
(* Bounds of the model.                                                    *)
(***************************************************************************)
\* longest ground-state decay_modes list drawn by Init
MaxModes == 4
\* longest isomers list drawn by Init
MaxIsomers == 2
\* number of successive draw_nuclide calls on one record
MaxCalls == 2

(***************************************************************************)
(* Program constants.                                                      *)
(***************************************************************************)
SIZE_FONT == 7
SIZE_FONT_HL == 5

FONT_COLOR_DARK == "#000000"
FONT_COLOR_BRIGHT == "#aaaaaa"

\* decay-mode names, spelled as character sequences
m_is == <<"i", "s">>
m_a == <<"a">>
m_bm == <<"b", "-">>
m_bp == <<"b", "+">>
m_ec == <<"e", "c">>
m_p == <<"p">>
m_2p == <<"2", "p">>
m_sf == <<"s", "f">>
m_n == <<"n">>
m_2n == <<"2", "n">>
m_2ec == <<"2", "e", "c">>
m_2bm == <<"2", "b", "-">>
m_it == <<"i", "t">>
m_cluster == <<"c", "l", "u", "s", "t", "e", "r">>
m_unknown == <<"?">>

COLORS ==
    (m_is :> "#000000") @@ (m_bm :> "#62aeff") @@ (m_2bm :> "#62aeff") @@
    (m_bp :> "#ff7e75") @@ (m_ec :> "#ff7e75") @@ (m_2ec :> "#ff7e75") @@
    (m_a :> "#fffe49") @@ (m_sf :> "#5cbc57") @@ (m_p :> "#ffa425") @@
    (m_2p :> "#ffa425") @@ (m_n :> "#9fd7ff") @@ (m_2n :> "#9fd7ff") @@
    (m_it :> "#ffffff") @@ (m_cluster :> "#a564cc") @@ (m_unknown :> "#cccccc")

basic_decay_modes ==
    {m_is, m_a, m_bm, m_bp, m_ec, m_p, m_2p, m_sf, m_n, m_2n, m_2ec, m_2bm}

\* the time units of a genuine isomer (the set literal of lines 601 and 1051)
isomer_units ==
    {<<"d">>, <<"h">>, <<"m">>, <<"s">>, <<"Y", "y">>, <<"Z", "y">>,
     <<"E", "y">>, <<"P", "y">>, <<"T", "y">>, <<"G", "y">>, <<"M", "y">>,
     <<"k", "y">>, <<"y">>}

(***************************************************************************)
(* Characters and strings.                                                 *)
(***************************************************************************)
DigitChars == <<"0", "1", "2", "3", "4", "5", "6", "7", "8", "9">>

IsDigit(c) == \E d \in 1..10 : DigitChars[d] = c

DigitVal(c) == (CHOOSE d \in 1..10 : DigitChars[d] = c) - 1

LowerChars ==
    {"a", "b", "c", "d", "e", "f", "g", "h", "i", "j", "k", "l", "m",
     "n", "o", "p", "q", "r", "s", "t", "u", "v", "w", "x", "y", "z"}

AllDigits(s) == \A i \in 1..Len(s) : IsDigit(s[i])

\* s[a..b] with Python's empty result when a > b
Slice(s, a, b) == IF a > b THEN <<>> ELSE SubSeq(s, a, b)

\* str.find(sub) >= 0
Contains(s, sub) ==
    \E k \in 0..(Len(s) - Len(sub)) : Slice(s, k + 1, k + Len(sub)) = sub

\* str.strip('#'): every leading and every trailing '#' is removed
StripHash(s) ==
    LET keep == {i \in 1..Len(s) : s[i] # "#"}
    IN  IF keep = {} THEN <<>>
        ELSE LET lo == CHOOSE i \in keep : \A j \in keep : i <= j
                 hi == CHOOSE i \in keep : \A j \in keep : j <= i
             IN  SubSeq(s, lo, hi)

RECURSIVE DigitsToInt(_)
DigitsToInt(s) ==
    IF s = <<>> THEN 0
    ELSE 10 * DigitsToInt(SubSeq(s, 1, Len(s) - 1)) + DigitVal(s[Len(s)])

RECURSIVE IntToStr(_)
\* str(n) for n >= 0
IntToStr(n) ==
    IF n < 10 THEN <<DigitChars[n + 1]>>
    ELSE Append(IntToStr(n \div 10), DigitChars[(n % 10) + 1])

RECURSIVE Pow10(_)
Pow10(k) == IF k <= 0 THEN 1 ELSE 10 * Pow10(k - 1)

NumDigits(n) == Len(IntToStr(n))

(***************************************************************************)
(* float(): the decimal grammar [sign] digits [. digits] [e|E [sign]       *)
(* digits], with at least one mantissa digit.  The value is the exact      *)
(* rational (-1)^neg * m * 10^(e - f).  The model's alphabet has no blank, *)
(* underscore or letter other than e/E, so Python's "inf", "nan" and       *)
(* digit-group forms cannot occur, and the values stay well inside the     *)
(* range where a double compares with 0.0 and 5.0 like the rational does.  *)
(* The parsers are staged through parameters so that every intermediate    *)
(* result is computed once.                                                *)
(***************************************************************************)
HasSign(s) == Len(s) > 0 /\ s[1] \in {"+", "-"}

Unsigned(s) == IF HasSign(s) THEN Tail(s) ELSE s

\* index of the first character of s that is in set cs, 0 if there is none
FirstIn(s, cs) ==
    LET at == {i \in 1..Len(s) : s[i] \in cs}
    IN  IF at = {} THEN 0 ELSE CHOOSE i \in at : \A j \in at : i <= j

Before(s, i) == IF i = 0 THEN s ELSE Slice(s, 1, i - 1)

After(s, i) == IF i = 0 THEN <<>> ELSE Slice(s, i + 1, Len(s))

NotFloat == [ok |-> FALSE, neg |-> FALSE, m |-> 0, f |-> 0, e |-> 0]

\* ip, fp: digits before and after the point; edig: exponent digits
FloatFields(neg, ip, fp, hasE, eneg, edig) ==
    IF /\ AllDigits(ip) /\ AllDigits(fp)
       /\ Len(ip) + Len(fp) >= 1
       /\ (hasE => (AllDigits(edig) /\ Len(edig) >= 1))
    THEN [ok  |-> TRUE, neg |-> neg, m |-> DigitsToInt(ip \o fp),
          f   |-> Len(fp),
          e   |-> IF ~hasE THEN 0
                  ELSE IF eneg THEN 0 - DigitsToInt(edig)
                  ELSE DigitsToInt(edig)]
    ELSE NotFloat

FloatMantExp(neg, mant, hasE, expo) ==
    FloatFields(neg,
                Before(mant, FirstIn(mant, {"."})),
                After(mant, FirstIn(mant, {"."})),
                hasE,
                HasSign(expo) /\ expo[1] = "-",
                Unsigned(expo))

FloatBody(neg, body, e1) ==
    FloatMantExp(neg, Before(body, e1), e1 # 0, After(body, e1))

FloatParts(s) ==
    FloatBody(HasSign(s) /\ s[1] = "-", Unsigned(s),
              FirstIn(Unsigned(s), {"e", "E"}))

\* v > k for the parsed value v and an integer k >= 0
FloatGt(v, k) ==
    /\ ~v.neg
    /\ IF v.e - v.f >= 0 THEN v.m * Pow10(v.e - v.f) > k
       ELSE v.m > k * Pow10(v.f - v.e)

(***************************************************************************)
(* re.search(sci_re, s), sci_re = ^[-+]?[0-9]*\.?[0-9]+([eE]+[-+]?[0-9]+)$ *)
(***************************************************************************)
\* [0-9]*\.?[0-9]+ : digits, with at most one point that digits follow
SciMantissa(mant, dot) ==
    IF dot = 0 THEN AllDigits(mant) /\ Len(mant) >= 1
    ELSE /\ AllDigits(Before(mant, dot))
         /\ AllDigits(After(mant, dot))
         /\ Len(After(mant, dot)) >= 1

\* [eE]+[-+]?[0-9]+$ : tail begins with the first e/E of the string
SciExponent(tail) ==
    LET isE(i) == tail[i] \in {"e", "E"}
        run == CHOOSE i \in 1..Len(tail) :
                   /\ \A j \in 1..i : isE(j)
                   /\ (i = Len(tail) \/ ~isE(i + 1))
    IN  /\ AllDigits(Unsigned(After(tail, run)))
        /\ Len(Unsigned(After(tail, run))) >= 1

SciBody(body, e1) ==
    /\ e1 # 0
    /\ SciMantissa(Before(body, e1), FirstIn(Before(body, e1), {"."}))
    /\ SciExponent(Slice(body, e1, Len(body)))

SciMatch(s) == SciBody(Unsigned(s), FirstIn(Unsigned(s), {"e", "E"}))

(***************************************************************************)
(* '{0:.1e}'.format(v): two significant digits, exponent of at least two   *)
(* digits.  Rounding is half-even on the decimal expansion, which is what  *)
(* Python prints whenever the decimal is no tie or is exactly a double.    *)
(***************************************************************************)
\* the first two significant digits of m, rounded: 10..100 (0 for m = 0);
\* D is the number of digits of m
Round2(m, D) ==
    IF D <= 2 THEN m * Pow10(2 - D)
    ELSE LET r    == m % Pow10(D - 2)
             half == 5 * Pow10(D - 3)
             q0   == m \div Pow10(D - 2)
         IN  IF r > half \/ (r = half /\ q0 % 2 = 1) THEN q0 + 1 ELSE q0

\* q: the two mantissa digits; X: the decimal exponent
EString(neg, q, X) ==
    (IF neg THEN <<"-">> ELSE <<>>)
    \o <<DigitChars[(q \div 10) + 1], ".", DigitChars[(q % 10) + 1], "e">>
    \o (IF X < 0 THEN <<"-">> ELSE <<"+">>)
    \o (IF X < 0
        THEN (IF 0 - X < 10 THEN <<"0">> ELSE <<>>) \o IntToStr(0 - X)
        ELSE (IF X < 10 THEN <<"0">> ELSE <<>>) \o IntToStr(X))

FormatRounded(v, D, q1) ==
    EString(v.neg,
            IF q1 = 100 THEN 10 ELSE q1,
            IF v.m = 0 THEN 0
            ELSE (D - 1) + v.e - v.f + (IF q1 = 100 THEN 1 ELSE 0))

FormatE1(v) == FormatRounded(v, NumDigits(v.m), Round2(v.m, NumDigits(v.m)))

\* re.search(cluster_re, mode) with cluster_re = [0-9]{2}([a-z]+)$ : some
\* suffix of the mode is two digits followed by one or more lower-case letters
ClusterMatch(mode) ==
    \E k \in 1..(Len(mode) - 2) :
        /\ IsDigit(mode[k]) /\ IsDigit(mode[k + 1])
        /\ \A j \in (k + 2)..Len(mode) : mode[j] \in LowerChars

(***************************************************************************)
(* draw_nuclide, ground state: primary colour and reorder swap.            *)
(* Python index i is TLA+ index i + 1.  A local that is not yet assigned   *)
(* holds "unbound"; None is "None".                                        *)
(***************************************************************************)

\* FirstBasic taking the last basic entry instead of the first
FirstBasic_Last(dm) ==
    LET found == {i \in 2..Len(dm) : dm[i].mode \in basic_decay_modes}
    IN  IF found = {} THEN 0
        ELSE CHOOSE i \in found : \A j \in found : i >= j

\* lowest index i >= 2 (Python i >= 1) holding a basic mode, 0 if none
FirstBasic(dm) ==
    LET found == {i \in 2..Len(dm) : dm[i].mode \in basic_decay_modes}
    IN  IF found = {} THEN 0
        ELSE CHOOSE i \in found : \A j \in found : i <= j


\* Primary with the two returns of lines 460 and 462 lost: a list without
\* any basic mode is drawn in the placeholder colour
Primary_NoSkip(dm, unknown) ==
    IF dm[1].mode \in basic_decay_modes
    THEN [ret |-> FALSE, dm |-> dm, primary_color |-> COLORS[dm[1].mode]]
    ELSE IF dm[1].mode = m_unknown /\ unknown
    THEN [ret |-> FALSE, dm |-> dm, primary_color |-> COLORS[m_unknown]]
    ELSE IF Len(dm) > 1 /\ FirstBasic(dm) # 0
    THEN [ret |-> FALSE,
          dm  |-> [dm EXCEPT ![1] = dm[FirstBasic(dm)],
                             ![FirstBasic(dm)] = dm[1]],
          primary_color |-> COLORS[dm[FirstBasic(dm)].mode]]
    ELSE [ret |-> FALSE, dm |-> dm, primary_color |-> COLORS[m_unknown]]

\* Primary with 'a' missing from the list tested at line 444
Primary_NoAlpha(dm, unknown) ==
    IF dm[1].mode \in basic_decay_modes \ {m_a}
    THEN [ret |-> FALSE, dm |-> dm, primary_color |-> COLORS[dm[1].mode]]
    ELSE IF dm[1].mode = m_unknown /\ unknown
    THEN [ret |-> FALSE, dm |-> dm, primary_color |-> COLORS[m_unknown]]
    ELSE IF Len(dm) > 1 /\ FirstBasic(dm) # 0
    THEN [ret |-> FALSE,
          dm  |-> [dm EXCEPT ![1] = dm[FirstBasic(dm)],
                             ![FirstBasic(dm)] = dm[1]],
          primary_color |-> COLORS[dm[FirstBasic(dm)].mode]]
    ELSE [ret |-> TRUE, dm |-> dm, primary_color |-> "unbound"]

\* lines 444-462: [ret: the function returned, dm: the list afterwards,
\* primary_color]
Primary(dm, unknown) ==
    IF dm[1].mode \in basic_decay_modes
    THEN [ret |-> FALSE, dm |-> dm, primary_color |-> COLORS[dm[1].mode]]
    ELSE IF dm[1].mode = m_unknown /\ unknown
    THEN [ret |-> FALSE, dm |-> dm, primary_color |-> COLORS[m_unknown]]
    ELSE IF Len(dm) > 1 /\ FirstBasic(dm) # 0
    THEN LET i  == FirstBasic(dm)
             sw == [dm EXCEPT ![1] = dm[i], ![i] = dm[1]]
         IN  [ret |-> FALSE, dm |-> sw, primary_color |-> COLORS[sw[1].mode]]
    ELSE [ret |-> TRUE, dm |-> dm, primary_color |-> "unbound"]


\* SecondaryEntry with line 485 written v >= 5.0
SecondaryEntry_Ge(acc, color, v, primary_color) ==
    IF ~v.ok THEN acc
    ELSE IF /\ \/ FloatGt(v, 5)
               \/ ~v.neg /\ v.f >= v.e /\ v.m = 5 * Pow10(v.f - v.e)
            /\ primary_color # COLORS[m_is]
    THEN [size |-> "large", color |-> color]
    ELSE IF FloatGt(v, 0)
    THEN [size |-> "small", color |-> color]
    ELSE [acc EXCEPT !.color = color]

\* lines 483-488: a basic entry whose value parsed to v; acc = [size, color]
SecondaryEntry(acc, color, v, primary_color) ==
    IF ~v.ok THEN acc
    ELSE IF FloatGt(v, 5) /\ primary_color # COLORS[m_is]
    THEN [size |-> "large", color |-> color]
    ELSE IF FloatGt(v, 0)
    THEN [size |-> "small", color |-> color]
    ELSE [acc EXCEPT !.color = color]

RECURSIVE SecondaryLoop(_, _, _, _)
\* lines 480-495: the scan of decay_modes[1:]
SecondaryLoop(dm, i, primary_color, acc) ==
    IF i > Len(dm) THEN acc
    ELSE IF dm[i].mode \in basic_decay_modes
    THEN SecondaryLoop(dm, i + 1, primary_color,
                       SecondaryEntry(acc, COLORS[dm[i].mode],
                                      FloatParts(StripHash(dm[i].value)),
                                      primary_color))
    ELSE IF ClusterMatch(dm[i].mode)
    THEN [size |-> "small", color |-> COLORS[m_cluster]]
    ELSE SecondaryLoop(dm, i + 1, primary_color, acc)

RECURSIVE TertiaryLoop(_, _, _)
RECURSIVE TertiaryEntry(_, _, _, _)
\* lines 503-508: a basic entry whose value parsed to v
TertiaryEntry(dm, i, acc, v) ==
    IF ~v.ok THEN TertiaryLoop(dm, i + 1, acc)
    ELSE IF FloatGt(v, 0)
    THEN [size |-> "small", color |-> COLORS[dm[i].mode]]
    ELSE acc

\* lines 500-515: the scan of decay_modes[2:], acc = [size, color]
TertiaryLoop(dm, i, acc) ==
    IF i > Len(dm) THEN acc
    ELSE IF dm[i].mode \in basic_decay_modes
    THEN TertiaryEntry(dm, i, acc, FloatParts(StripHash(dm[i].value)))
    ELSE IF ClusterMatch(dm[i].mode)
    THEN [size |-> "small", color |-> COLORS[m_cluster]]
    ELSE TertiaryLoop(dm, i + 1, acc)

NoMarker == [size |-> "None", color |-> "unbound"]

\* lines 477-495
Secondary(dm, primary_color) ==
    IF Len(dm) > 1 THEN SecondaryLoop(dm, 2, primary_color, NoMarker)
    ELSE NoMarker


\* Tertiary attempted behind any secondary marker
Tertiary_AnySecondary(dm, primary_color, sec) ==
    IF Len(dm) > 2 /\ sec.size # "None"
    THEN TertiaryLoop(dm, 3, NoMarker)
    ELSE NoMarker

\* lines 497-515
Tertiary(dm, primary_color, sec) ==
    IF /\ Len(dm) > 2
       /\ (sec.size = "large"
           \/ (sec.size = "small" /\ primary_color = COLORS[m_is]))
    THEN TertiaryLoop(dm, 3, NoMarker)
    ELSE NoMarker

(***************************************************************************)
(* Draw calls.  One record per element appended to a layer: the drawing    *)
(* function, the layer index, the anchor (the cell corner, or the named    *)
(* text coordinates), the id suffix, colour, corner, font size and text.   *)
(* iso is bookkeeping of the model: the index in nuclide.isomers of the    *)
(* entry whose loop iteration issued the call, 0 outside that loop.        *)
(***************************************************************************)
Shape(op, layer, id, color, corner, iso) ==
    [op |-> op, layer |-> layer, at |-> "position", id |-> id,
     color |-> color, corner |-> corner, font |-> 0, text |-> <<>>,
     iso |-> iso]

Text(at, color, font, text, iso) ==
    [op |-> "_draw_text", layer |-> 3, at |-> at, id |-> "",
     color |-> color, corner |-> "", font |-> font, text |-> text,
     iso |-> iso]

\* lines 521-528
LargeCorner(secondary_color, primary_color) ==
    IF secondary_color = COLORS[m_a] THEN "lt"
    ELSE IF /\ secondary_color = COLORS[m_bp]
            /\ primary_color # COLORS[m_a]
            /\ primary_color # COLORS[m_p]
    THEN "lt"
    ELSE "rb"

\* lines 532-541
SmallCorner(secondary_color, primary_color) ==
    IF secondary_color = COLORS[m_a] THEN "lt"
    ELSE IF /\ secondary_color = COLORS[m_bp]
            /\ primary_color # COLORS[m_a]
            /\ primary_color # COLORS[m_p]
    THEN "lt"
    ELSE IF secondary_color = COLORS[m_cluster] THEN "rt"
    ELSE "rb"

\* lines 546-555
TertiaryCorner(tertiary_color, primary_color, secondary_color) ==
    IF tertiary_color = COLORS[m_a] THEN "lt"
    ELSE IF /\ tertiary_color = COLORS[m_bp]
            /\ primary_color # COLORS[m_a]
            /\ secondary_color # COLORS[m_a]
    THEN "lt"
    ELSE IF tertiary_color = COLORS[m_cluster] THEN "rt"
    ELSE "rb"

\* lines 517-557: base rectangle, secondary and tertiary triangle
GroundShapes(primary_color, sec, ter) ==
    <<Shape("_draw_rectangle", 0, "0", primary_color, "", 0)>>
    \o (IF sec.size = "large"
        THEN <<Shape("_draw_triangle", 1, "1", sec.color,
                     LargeCorner(sec.color, primary_color), 0)>>
        ELSE IF sec.size = "small"
        THEN <<Shape("_draw_small_triangle", 1, "1", sec.color,
                     SmallCorner(sec.color, primary_color), 0)>>
        ELSE <<>>)
    \o (IF ter.size = "small"
        THEN <<Shape("_draw_small_triangle", 1, "2", ter.color,
                     TertiaryCorner(ter.color, primary_color, sec.color), 0)>>
        ELSE <<>>)

\* lines 565 and 774: "$*" + str(nuclide.A) + "*$" + nuclide.element
ElementName(n) == <<"$", "*">> \o IntToStr(n.A) \o <<"*", "$">> \o n.element

(***************************************************************************)
(* draw_nuclide, isomer branch (lines 560-759).                            *)
(***************************************************************************)

\* IsGenuine with the unit test of line 601 lost
IsGenuine_RelationOnly(possible_isomers) ==
    possible_isomers.half_life.relation = <<"=">>

\* lines 590-601: the test an entry of nuclide.isomers has to pass
IsGenuine(possible_isomers) ==
    /\ possible_isomers.half_life.relation = <<"=">>
    /\ possible_isomers.half_life.unit \in isomer_units

\* lines 617-627: the isomer's primary colour; cur is the value the local
\* isomer_primary_color holds when the iteration starts
IsomerPrimary(idm, cur) ==
    IF Len(idm) > 0
    THEN IF idm[1].mode \in basic_decay_modes \/ idm[1].mode = m_it
         THEN IF FloatParts(StripHash(idm[1].value)).ok
              THEN COLORS[idm[1].mode]
              ELSE cur
         ELSE cur
    ELSE cur

\* lines 642-648: an accepted entry whose value parsed to v
IsomerSecondaryEntry(acc, color, v, isomer_primary_color) ==
    IF ~v.ok THEN acc
    ELSE IF FloatGt(v, 5) /\ isomer_primary_color # COLORS[m_is]
    THEN [size |-> "large", color |-> color]
    ELSE IF FloatGt(v, 0)
    THEN [size |-> "small", color |-> color]
    ELSE [acc EXCEPT !.color = color]

RECURSIVE IsomerSecondaryLoop(_, _, _, _)
\* lines 630-656
IsomerSecondaryLoop(idm, i, isomer_primary_color, acc) ==
    IF i > Len(idm) THEN acc
    ELSE IF idm[i].mode \in basic_decay_modes \/ idm[i].mode = m_it
    THEN IsomerSecondaryLoop(idm, i + 1, isomer_primary_color,
            IsomerSecondaryEntry(acc, COLORS[idm[i].mode],
                                 FloatParts(StripHash(idm[i].value)),
                                 isomer_primary_color))
    ELSE IF ClusterMatch(idm[i].mode)
    THEN [size |-> "small", color |-> COLORS[m_cluster]]
    ELSE IsomerSecondaryLoop(idm, i + 1, isomer_primary_color, acc)

RECURSIVE IsomerTertiaryLoop(_, _, _)
RECURSIVE IsomerTertiaryEntry(_, _, _, _)
\* lines 664-669
IsomerTertiaryEntry(idm, i, acc, v) ==
    IF ~v.ok THEN IsomerTertiaryLoop(idm, i + 1, acc)
    ELSE IF FloatGt(v, 0)
    THEN [size |-> "small", color |-> COLORS[idm[i].mode]]
    ELSE acc

\* lines 661-676
IsomerTertiaryLoop(idm, i, acc) ==
    IF i > Len(idm) THEN acc
    ELSE IF idm[i].mode \in basic_decay_modes
    THEN IsomerTertiaryEntry(idm, i, acc, FloatParts(StripHash(idm[i].value)))
    ELSE IF ClusterMatch(idm[i].mode)
    THEN [size |-> "small", color |-> COLORS[m_cluster]]
    ELSE IsomerTertiaryLoop(idm, i + 1, acc)

\* lines 615, 629-656
IsomerSecondary(idm, isomer_primary_color) ==
    IF Len(idm) > 1
    THEN IsomerSecondaryLoop(idm, 2, isomer_primary_color, NoMarker)
    ELSE NoMarker

\* lines 616, 658-676
IsomerTertiary(idm, isomer_primary_color, sec) ==
    IF /\ Len(idm) > 1
       /\ Len(idm) > 2
       /\ (sec.size = "large"
           \/ (sec.size = "small" /\ isomer_primary_color = COLORS[m_is]))
    THEN IsomerTertiaryLoop(idm, 3, NoMarker)
    ELSE NoMarker

\* lines 685-692
IsomerLargeCorner(isomer_secondary_color, isomer_primary_color) ==
    IF isomer_secondary_color = COLORS[m_a] THEN "lt"
    ELSE IF /\ isomer_secondary_color = COLORS[m_bp]
            /\ isomer_primary_color # COLORS[m_a]
            /\ isomer_primary_color # COLORS[m_p]
    THEN "lt"
    ELSE "rb"

\* lines 696-705
IsomerSmallCorner(isomer_secondary_color, isomer_primary_color) ==
    IF isomer_secondary_color = COLORS[m_a] THEN "lt"
    ELSE IF /\ isomer_secondary_color = COLORS[m_bp]
            /\ isomer_primary_color # COLORS[m_a]
            /\ isomer_primary_color # COLORS[m_p]
    THEN "lt"
    ELSE IF isomer_secondary_color = COLORS[m_cluster] THEN "rt"
    ELSE "rb"

\* lines 710-719
IsomerTertiaryCorner(isomer_tertiary_color, isomer_primary_color, isomer_secondary_color) ==
    IF isomer_tertiary_color = COLORS[m_a] THEN "lt"
    ELSE IF /\ isomer_tertiary_color = COLORS[m_bp]
            /\ isomer_primary_color # COLORS[m_a]
            /\ isomer_secondary_color # COLORS[m_a]
    THEN "lt"
    ELSE IF isomer_tertiary_color = COLORS[m_cluster] THEN "rt"
    ELSE "rb"

\* lines 684-730: the isomer's triangles, inset rectangle and divider line
IsomerShapes(isomer_primary_color, sec, ter, k) ==
    (IF sec.size = "large"
     THEN <<Shape("_draw_triangle", 1, "1", sec.color,
                  IsomerLargeCorner(sec.color, isomer_primary_color), k)>>
     ELSE IF sec.size = "small"
     THEN <<Shape("_draw_small_isomer_triangle", 1, "1", sec.color,
                  IsomerSmallCorner(sec.color, isomer_primary_color), k)>>
     ELSE <<>>)
    \o (IF ter.size = "small"
        THEN <<Shape("_draw_small_isomer_triangle", 1, "2", ter.color,
                     IsomerTertiaryCorner(ter.color, isomer_primary_color,
                                          sec.color), k)>>
        ELSE <<>>)
    \o <<Shape("_draw_isomer_rectangle", 0, "ib", isomer_primary_color, "", k),
         Shape("_draw_isomer_line", 1, "iline", "#000000", "", k)>>

\* lines 739-745 (and again 791-797): a string sci_re matches is replaced
\* by its '{0:.1e}' form; float() raising ValueError is not caught there
SciParsed(half_life_string, sci, v) ==
    IF sci /\ ~v.ok
    THEN [raised |-> "ValueError", text |-> half_life_string]
    ELSE IF sci THEN [raised |-> "none", text |-> FormatE1(v)]
    ELSE [raised |-> "none", text |-> half_life_string]

SciReformat(half_life_string) ==
    SciParsed(half_life_string, SciMatch(half_life_string),
              FloatParts(half_life_string))

\* lines 746-753: the ground-state captions of the isomer rendering, re the
\* reformatted value; half_life_unit stays "unbound" on the '?' path
IsomerCaptionOf(n, re) ==
    IF re.raised # "none"
    THEN [raised |-> re.raised, half_life_string |-> re.text,
          half_life_unit |-> "unbound"]
    ELSE IF n.half_life.value # <<"?">>
    THEN IF n.half_life.relation # <<"=">>
         THEN [raised |-> "none",
               half_life_string |-> n.half_life.relation,
               half_life_unit |-> n.half_life.value]
         ELSE [raised |-> "none", half_life_string |-> re.text,
               half_life_unit |-> n.half_life.unit]
    ELSE [raised |-> "none",
          half_life_string |-> n.decay_modes[1].value \o <<"%">>,
          half_life_unit |-> "unbound"]

\* lines 738-753
IsomerCaption(n) == IsomerCaptionOf(n, SciReformat(n.half_life.value))

\* lines 756-759: the four caption texts; reading the unbound local
\* half_life_unit at line 757 raises UnboundLocalError after the first text
IsomerTexts(cap, possible_isomers, font_color, k) ==
    IF cap.raised # "none" THEN [raised |-> cap.raised, drawn |-> <<>>]
    ELSE IF cap.half_life_unit = "unbound"
    THEN [raised |-> "UnboundLocalError",
          drawn  |-> <<Text("x2y1", font_color, SIZE_FONT_HL - 2,
                            cap.half_life_string, k)>>]
    ELSE [raised |-> "none",
          drawn  |->
            <<Text("x2y1", font_color, SIZE_FONT_HL - 2,
                   cap.half_life_string, k),
              Text("x2y2", font_color, SIZE_FONT_HL - 2,
                   cap.half_life_unit, k),
              Text("x1y1", font_color, SIZE_FONT_HL - 2,
                   possible_isomers.half_life.value, k),
              Text("x1y2", font_color, SIZE_FONT_HL - 2,
                   possible_isomers.half_life.unit, k)>>]

\* the state the loop carries: what is drawn so far, the exception, and the
\* local isomer_primary_color (set at line 575, kept from entry to entry)
IsomerEmit(st, isomer_primary_color, shapes, txt) ==
    [drawn  |-> st.drawn \o shapes \o txt.drawn,
     raised |-> txt.raised,
     isomer_primary_color |-> isomer_primary_color]

IsomerMarked(n, k, st, font_color, isomer_primary_color, sec) ==
    IsomerEmit(st, isomer_primary_color,
               IsomerShapes(isomer_primary_color, sec,
                            IsomerTertiary(n.isomers[k].decay_modes,
                                           isomer_primary_color, sec), k),
               IsomerTexts(IsomerCaption(n), n.isomers[k], font_color, k))

IsomerColored(n, k, st, font_color, isomer_primary_color) ==
    IsomerMarked(n, k, st, font_color, isomer_primary_color,
                 IsomerSecondary(n.isomers[k].decay_modes,
                                 isomer_primary_color))

\* lines 604-759: the body run for one genuine entry
IsomerBody(n, k, st, font_color) ==
    IsomerColored(n, k, st, font_color,
                  IsomerPrimary(n.isomers[k].decay_modes,
                                st.isomer_primary_color))

RECURSIVE IsomerLoop(_, _, _, _)
\* line 588: for possible_isomers in found_isomers; an exception ends it
IsomerLoop(n, k, st, font_color) ==
    IF k > Len(n.isomers) \/ st.raised # "none" THEN st
    ELSE IF IsGenuine(n.isomers[k])
    THEN IsomerLoop(n, k + 1, IsomerBody(n, k, st, font_color), font_color)
    ELSE IsomerLoop(n, k + 1, st, font_color)

\* lines 563-759: the isomer branch; nothing is drawn unless args.names
IsomerBranch(n, a, primary_color, font_color) ==
    IF a.names
    THEN IsomerLoop(n, 1,
            [drawn  |-> <<Text("name", font_color, SIZE_FONT - 2,
                               ElementName(n), 0)>>,
             raised |-> "none",
             isomer_primary_color |-> primary_color],
            font_color)
    ELSE [drawn |-> <<>>, raised |-> "none",
          isomer_primary_color |-> "unbound"]

(***************************************************************************)
(* draw_nuclide, normal branch (lines 769-810).                            *)
(***************************************************************************)

\* HalfLifeOf with the unit dropped when a relation is shown
HalfLifeOf_DropUnit(n, re) ==
    IF re.raised # "none" THEN re
    ELSE IF n.half_life.value # <<"?">>
    THEN IF n.half_life.relation # <<"=">>
         THEN [raised |-> "none",
               text |-> n.half_life.relation \o <<" ">> \o re.text]
         ELSE [raised |-> "none",
               text |-> re.text \o <<" ">> \o n.half_life.unit]
    ELSE re

\* HalfLifeOf with the '?' fallback of line 753 copied into line 798
HalfLifeOf_Percent(n, re) ==
    IF re.raised # "none" THEN re
    ELSE IF n.half_life.value # <<"?">>
    THEN IF n.half_life.relation # <<"=">>
         THEN [raised |-> "none",
               text |-> n.half_life.relation \o <<" ">> \o re.text
                        \o <<" ">> \o n.half_life.unit]
         ELSE [raised |-> "none",
               text |-> re.text \o <<" ">> \o n.half_life.unit]
    ELSE [raised |-> "none", text |-> n.decay_modes[1].value \o <<"%">>]

\* lines 798-801, re the reformatted value
HalfLifeOf(n, re) ==
    IF re.raised # "none" THEN re
    ELSE IF n.half_life.value # <<"?">>
    THEN IF n.half_life.relation # <<"=">>
         THEN [raised |-> "none",
               text |-> n.half_life.relation \o <<" ">> \o re.text
                        \o <<" ">> \o n.half_life.unit]
         ELSE [raised |-> "none",
               text |-> re.text \o <<" ">> \o n.half_life.unit]
    ELSE re

\* lines 789-803: the half-life text
HalfLifeString(n, primary_color) ==
    IF primary_color # COLORS[m_is]
    THEN HalfLifeOf(n, SciReformat(n.half_life.value))
    ELSE [raised |-> "none", text |-> n.decay_modes[1].value \o <<"%">>]

\* lines 770-782
NameText(n, a, font_color) ==
    IF a.names
    THEN <<Text("name", font_color, SIZE_FONT, ElementName(n), 0)>>
    ELSE <<>>

\* lines 786, 805-810
NormalEmit(n, a, font_color, name, hl) ==
    IF a.halflives /\ ~(n.half_life.extrapolated = "True")
    THEN IF hl.raised # "none"
         THEN [drawn |-> name, raised |-> hl.raised]
         ELSE [drawn  |-> name \o <<Text("half_life", font_color,
                                         SIZE_FONT_HL, hl.text, 0)>>,
               raised |-> "none"]
    ELSE [drawn |-> name, raised |-> "none"]

NormalBranch(n, a, primary_color, font_color) ==
    NormalEmit(n, a, font_color, NameText(n, a, font_color),
               HalfLifeString(n, primary_color))

(***************************************************************************)
(* draw_nuclide as a whole (lines 427-810).  outcome: "skip" (return at    *)
(* 460/462), "unstable" (return at 468), "isomer" or "normal" (the branch  *)
(* taken at line 560).                                                     *)
(***************************************************************************)
NoLocals ==
    [outcome |-> "none", primary_color |-> "unbound",
     secondary_size |-> "None", secondary_color |-> "unbound",
     tertiary_size |-> "None", tertiary_color |-> "unbound"]

\* line 559
FontColor(primary_color) ==
    IF primary_color = COLORS[m_is] THEN FONT_COLOR_BRIGHT
    ELSE FONT_COLOR_DARK

Finish(pr, sec, ter, outcome, r) ==
    [decay_modes |-> pr.dm,
     drawn  |-> GroundShapes(pr.primary_color, sec, ter) \o r.drawn,
     raised |-> r.raised,
     locals |-> [outcome |-> outcome, primary_color |-> pr.primary_color,
                 secondary_size |-> sec.size, secondary_color |-> sec.color,
                 tertiary_size |-> ter.size, tertiary_color |-> ter.color]]

\* lines 517-810, n holding the reordered list
Render(n, a, isom, pr, sec, ter) ==
    IF a.isomers /\ isom
    THEN Finish(pr, sec, ter, "isomer",
                IsomerBranch(n, a, pr.primary_color,
                             FontColor(pr.primary_color)))
    ELSE Finish(pr, sec, ter, "normal",
                NormalBranch(n, a, pr.primary_color,
                             FontColor(pr.primary_color)))

\* lines 477-515
Classify(n, a, isom, pr, sec) ==
    Render(n, a, isom, pr, sec, Tertiary(pr.dm, pr.primary_color, sec))


\* AfterPrimary with line 466 comparing the whole value with 'unstable'
AfterPrimary_WholeValue(n, a, isom, pr) ==
    IF pr.ret
    THEN [decay_modes |-> pr.dm, drawn |-> <<>>, raised |-> "none",
          locals |-> [NoLocals EXCEPT !.outcome = "skip"]]
    ELSE IF n.half_life.value = <<"u", "n", "s", "t", "a", "b", "l", "e">>
    THEN [decay_modes |-> pr.dm, drawn |-> <<>>, raised |-> "none",
          locals |-> [NoLocals EXCEPT !.outcome = "unstable",
                                      !.primary_color = pr.primary_color]]
    ELSE Classify([n EXCEPT !.decay_modes = pr.dm], a, isom, pr,
                  Secondary(pr.dm, pr.primary_color))

\* AfterPrimary scanning the list as it was before the swap of line 456
AfterPrimary_StaleList(n, a, isom, pr) ==
    IF pr.ret
    THEN [decay_modes |-> pr.dm, drawn |-> <<>>, raised |-> "none",
          locals |-> [NoLocals EXCEPT !.outcome = "skip"]]
    ELSE IF Contains(n.half_life.value,
                     <<"u", "n", "s", "t", "a", "b", "l", "e">>)
    THEN [decay_modes |-> pr.dm, drawn |-> <<>>, raised |-> "none",
          locals |-> [NoLocals EXCEPT !.outcome = "unstable",
                                      !.primary_color = pr.primary_color]]
    ELSE Classify([n EXCEPT !.decay_modes = pr.dm], a, isom, pr,
                  Secondary(n.decay_modes, pr.primary_color))

\* lines 465-468 and on
AfterPrimary(n, a, isom, pr) ==
    IF pr.ret
    THEN [decay_modes |-> pr.dm, drawn |-> <<>>, raised |-> "none",
          locals |-> [NoLocals EXCEPT !.outcome = "skip"]]
    ELSE IF Contains(n.half_life.value,
                     <<"u", "n", "s", "t", "a", "b", "l", "e">>)
    THEN [decay_modes |-> pr.dm, drawn |-> <<>>, raised |-> "none",
          locals |-> [NoLocals EXCEPT !.outcome = "unstable",
                                      !.primary_color = pr.primary_color]]
    ELSE Classify([n EXCEPT !.decay_modes = pr.dm], a, isom, pr,
                  Secondary(pr.dm, pr.primary_color))

draw_nuclide(n, a, isom) ==
    AfterPrimary(n, a, isom, Primary(n.decay_modes, a.unknown))

(***************************************************************************)
(* The main loop's preparation of is_isomer (lines 1019, 1039-1052).       *)
(***************************************************************************)
RECURSIVE MainIsomerScan(_, _, _)
MainIsomerScan(found_isomers, k, flag) ==
    IF k > Len(found_isomers) THEN flag
    ELSE IF found_isomers[k].half_life.relation = <<"=">>
    THEN IF found_isomers[k].half_life.unit \in isomer_units
         THEN MainIsomerScan(found_isomers, k + 1, TRUE)
         ELSE MainIsomerScan(found_isomers, k + 1, flag)
    ELSE MainIsomerScan(found_isomers, k + 1, flag)

(***************************************************************************)
(* The inputs Init draws from.                                             *)
(***************************************************************************)
Entry(mode, value) == [mode |-> mode, value |-> value]

HalfLife(value, unit, relation, extrapolated) ==
    [value |-> value, unit |-> unit, relation |-> relation,
     extrapolated |-> extrapolated]

SeqsUpTo(S, n) == UNION {[1..k -> S] : k \in 0..n}

m_bpp == <<"b", "+", "p">>
m_14c == <<"1", "4", "c">>

v_100 == <<"1", "0", "0">>
v_68 == <<"6", "8", ".", "2">>
v_5 == <<"5", ".", "0">>
v_5plus == <<"5", ".", "0", "0", "0", "1">>

Entries ==
    {Entry(m_bm, v_100), Entry(m_is, v_68), Entry(m_a, v_5),
     Entry(m_bp, v_5plus), Entry(m_sf, <<"0">>), Entry(m_p, <<"?">>),
     Entry(m_bpp, <<"#", "3">>), Entry(m_14c, <<"?">>),
     Entry(m_unknown, <<>>)}

hl_known == HalfLife(<<"1", "2", ".", "3">>, <<"y">>, <<"=">>, "False")
hl_unstable == HalfLife(<<"p", "-", "u", "n", "s", "t", "a", "b", "l", "e">>,
                        <<>>, <<"=">>, "False")

HalfLives ==
    {hl_known, hl_unstable,
     HalfLife(<<"?">>, <<>>, <<"=">>, "False"),
     HalfLife(<<"?">>, <<"y">>, <<">">>, "False"),
     HalfLife(<<"s", "t", "a", "b", "l", "e">>, <<>>, <<"=">>, "False"),
     HalfLife(<<"1", ".", "5", "6", "e", "3">>, <<"y">>, <<">">>, "False"),
     HalfLife(<<"3", "0">>, <<"s">>, <<"<">>, "False"),
     HalfLife(<<"2", "E", "-", "7">>, <<"s">>, <<"=">>, "False"),
     HalfLife(<<"1", "2", ".", "3">>, <<"y">>, <<"=">>, "True"),
     HalfLife(<<"1", "e", "E", "5">>, <<"s">>, <<"=">>, "False")}

GroundLists ==
    {<<Entry(m_bm, v_100)>>,
     <<Entry(m_is, v_68)>>,
     <<Entry(m_is, v_68), Entry(m_bp, v_5plus)>>,
     <<Entry(m_unknown, <<>>)>>,
     <<Entry(m_bpp, <<"#", "3">>), Entry(m_bp, v_5plus)>>}

Isomer(half_life, decay_modes) ==
    [half_life |-> half_life, decay_modes |-> decay_modes]

IsomerStates ==
    {Isomer(HalfLife(<<"4", ".", "5">>, <<"h">>, <<"=">>, "False"),
            <<Entry(m_it, v_100)>>),
     Isomer(HalfLife(<<"2", ".", "1">>, <<"k", "y">>, <<"=">>, "False"),
            <<Entry(m_bp, v_5plus), Entry(m_a, v_5), Entry(m_bm, v_100)>>),
     Isomer(HalfLife(<<"1">>, <<"s">>, <<"<">>, "False"),
            <<Entry(m_bm, v_100)>>),
     Isomer(HalfLife(<<"5">>, <<"n", "s">>, <<"=">>, "False"),
            <<Entry(m_a, v_5)>>),
     Isomer(HalfLife(<<"3">>, <<"m">>, <<"=">>, "False"), <<>>),
     Isomer(HalfLife(<<"7">>, <<"d">>, <<"=">>, "False"),
            <<Entry(m_bpp, <<"#", "3">>), Entry(m_bm, v_100)>>)}

Nuclide(decay_modes, half_life, isomers) ==
    [A |-> 14, N |-> 8, Z |-> 6, element |-> <<"C">>,
     decay_modes |-> decay_modes,
     half_life |-> half_life, isomers |-> isomers]

\* every decay list up to MaxModes entries, without isomers
InitClassify ==
    /\ \E dm \in SeqsUpTo(Entries, MaxModes) \ {<<>>} :
       \E hl \in {hl_known, hl_unstable} :
           nuclide = Nuclide(dm, hl, <<>>)
    /\ \E u \in BOOLEAN :
           args = [names |-> TRUE, halflives |-> TRUE, isomers |-> TRUE,
                   unknown |-> u]

\* every isomers list up to MaxIsomers entries, every half-life and option
InitIsomers ==
    /\ \E dm \in GroundLists :
       \E hl \in HalfLives :
       \E iso \in SeqsUpTo(IsomerStates, MaxIsomers) :
           nuclide = Nuclide(dm, hl, iso)
    /\ args \in [names : BOOLEAN, halflives : BOOLEAN, isomers : BOOLEAN,
                 unknown : BOOLEAN]

\* the main program's variables while one record alone is studied
MainIdle ==
    /\ datafile = <<>>
    /\ data = <<>>
    /\ cursor = 1
    /\ individual_products = <<>>
    /\ individual_targets = <<>>
    /\ n_limits = <<0, 0>>
    /\ z_limits = <<0, 0>>
    /\ shape = <<>>
    /\ n_magic = <<>>
    /\ z_magic = <<>>
    /\ n_targets = <<>>
    /\ z_targets = <<>>
    /\ Z_counter = 0
    /\ chart = <<>>

Init ==
    /\ (InitClassify \/ InitIsomers)
    /\ is_isomer = FALSE
    /\ pc = "main"
    /\ calls = 0
    /\ before = <<>>
    /\ drawn = <<>>
    /\ raised = "none"
    /\ locals = NoLocals
    /\ first = [before |-> <<>>, drawn |-> <<>>, locals |-> NoLocals]
    /\ MainIdle

(***************************************************************************)
(* Actions.                                                                *)
(***************************************************************************)
\* lines 1019-1052: one pass of the main loop up to the call
MainLoop ==
    /\ pc = "main"
    /\ is_isomer' = MainIsomerScan(nuclide.isomers, 1, FALSE)
    /\ pc' = "draw"
    /\ UNCHANGED <<nuclide, args, calls, before, drawn, raised, locals, first>>
    /\ UNCHANGED mainvars

\* the call's effects, r being what draw_nuclide did
Called(r) ==
    /\ nuclide' = [nuclide EXCEPT !.decay_modes = r.decay_modes]
    /\ before' = nuclide.decay_modes
    /\ drawn' = r.drawn
    /\ raised' = r.raised
    /\ locals' = r.locals
    /\ first' = IF calls = 0
                THEN [before |-> nuclide.decay_modes, drawn |-> r.drawn,
                      locals |-> r.locals]
                ELSE first

\* lines 1237-1240: the call.  An exception other than IndexError leaves
\* the loop and ends the program, so no call follows it.
DrawNuclide ==
    /\ pc = "draw"
    /\ calls < MaxCalls
    /\ raised = "none"
    /\ Called(draw_nuclide(nuclide, args, is_isomer))
    /\ calls' = calls + 1
    /\ UNCHANGED <<args, is_isomer, pc>>
    /\ UNCHANGED mainvars

Next == MainLoop \/ DrawNuclide

Spec == Init /\ [][Next]_vars

(***************************************************************************)
(* The main program (lines 886-1255).                                      *)
(*                                                                         *)
(* Python lists are indexed from 0: n_limits[0] is n_limits[1] here, and   *)
(* shape is a function on 0..width-1 of functions on 0..height-1.  A dict  *)
(* is the sequence of its [key, val] items in insertion order, which is    *)
(* the order .items() iterates in.  An optional command-line string is     *)
(* <<>> when the option is absent (None) and <<s>> when it was given as s. *)
(***************************************************************************)
\* longest data file drawn by InitMain
MaxData == 3

SIZE_SHAPE == 30
SIZE_GAP == 2
SIZE_FIELD == SIZE_SHAPE + SIZE_GAP

MAGIC_NUMBERS == {2, 8, 20, 28, 50, 82, 126}

\* dict.get(k) is not None
DictHas(d, k) == \E i \in DOMAIN d : d[i].key = k

\* d[k]
DictGet(d, k) == d[CHOOSE i \in DOMAIN d : d[i].key = k].val

\* d[k] = v: a present key keeps its place, a new key goes last
DictSet(d, k, v) ==
    IF DictHas(d, k)
    THEN [i \in DOMAIN d |-> IF d[i].key = k THEN [key |-> k, val |-> v]
                             ELSE d[i]]
    ELSE Append(d, [key |-> k, val |-> v])

\* str.strip() of a string whose only white space is the blank
RECURSIVE Strip(_)
Strip(s) ==
    IF s = <<>> THEN s
    ELSE IF Head(s) = " " THEN Strip(Tail(s))
    ELSE IF s[Len(s)] = " " THEN Strip(SubSeq(s, 1, Len(s) - 1))
    ELSE s

\* str.split(' '): the pieces between blanks, empty pieces included
RECURSIVE Split(_, _, _)
Split(s, piece, acc) ==
    IF s = <<>> THEN Append(acc, piece)
    ELSE IF Head(s) = " " THEN Split(Tail(s), <<>>, Append(acc, piece))
    ELSE Split(Tail(s), Append(piece, Head(s)), acc)

\* list(set(...)): the distinct entries, in an order the hashing decides
Orders(S) ==
    {f \in [1..Cardinality(S) -> S] : \A i, j \in DOMAIN f : f[i] = f[j] => i = j}

\* lines 936 and 944
Individual(list_of) ==
    IF list_of = <<>> THEN {<<>>}
    ELSE LET pieces == Split(Strip(list_of[1]), <<>>, <<>>)
         IN  Orders({pieces[i] : i \in DOMAIN pieces})

\* re.sub(r'\d+', '', target)
RemoveDigits(target) == SelectSeq(target, LAMBDA c : ~IsDigit(c))

RECURSIVE DigitRun(_)
DigitRun(s) ==
    IF s = <<>> THEN <<>>
    ELSE IF IsDigit(Head(s)) THEN <<Head(s)>> \o DigitRun(Tail(s))
    ELSE <<>>

\* int(re.findall(r'\d+', target)[0]), and int('-1') when there is no digit
RECURSIVE FirstNumber(_)
FirstNumber(target) ==
    IF target = <<>> THEN -1
    ELSE IF IsDigit(Head(target)) THEN DigitsToInt(DigitRun(target))
    ELSE FirstNumber(Tail(target))

\* str(Z+N)+target_element
MassElement(n) == IntToStr(n.Z + n.N) \o n.element

Lower(a, b) == IF a < b THEN a ELSE b

Higher(a, b) == IF a > b THEN a ELSE b

\* lines 117-156: the nuclides inside the ranges, in document order, and
\* the limits they leave behind
RECURSIVE LoadFrom(_, _, _, _, _)
LoadFrom(doc, i, a, lim, acc) ==
    IF i > Len(doc)
    THEN [data |-> acc, n_limits |-> lim.n, z_limits |-> lim.z]
    ELSE IF ~(/\ a.N[1] <= doc[i].N /\ doc[i].N <= a.N[2]
              /\ a.Z[1] <= doc[i].Z /\ doc[i].Z <= a.Z[2])
    THEN LoadFrom(doc, i + 1, a, lim, acc)
    ELSE LoadFrom(doc, i + 1, a,
                  [n |-> <<Lower(doc[i].N, lim.n[1]), Higher(doc[i].N, lim.n[2])>>,
                   z |-> <<Lower(doc[i].Z, lim.z[1]), Higher(doc[i].Z, lim.z[2])>>],
                  Append(acc, doc[i]))

load_xml_nuclear_table(doc, a) ==
    LoadFrom(doc, 1, a, [n |-> <<a.N[2], a.N[1]>>, z |-> <<a.Z[2], a.Z[1]>>],
             <<>>)

\* lines 997-998
Size(nl, zl) ==
    <<(nl[2] - nl[1] + 2) * SIZE_FIELD + SIZE_GAP,
      (zl[2] - zl[1] + 2) * SIZE_FIELD + SIZE_GAP>>

\* lines 1006-1011
EmptyShape(nl, zl) ==
    [n \in 0..(nl[2] - nl[1]) |-> [z \in 0..(zl[2] - zl[1]) |-> FALSE]]

\* lines 1055-1060 and 1061-1066: only the upper end is ever moved
MagicUpdate(magic, k, v) ==
    IF k \in MAGIC_NUMBERS
    THEN IF DictHas(magic, k)
         THEN IF DictGet(magic, k)[2] < v
              THEN DictSet(magic, k, <<DictGet(magic, k)[1], v>>)
              ELSE magic
         ELSE DictSet(magic, k, <<v, v>>)
    ELSE magic

\* ResetFlags with the statements of lines 1020-1027 left out
ResetFlags_Keep(a) == a

\* lines 1020-1027
ResetFlags(a) ==
    IF a.list_of_targets # <<>> \/ a.list_of_products # <<>>
    THEN [a EXCEPT !.names = FALSE, !.halflives = FALSE]
    ELSE a

\* lines 1093-1094, 1131-1132, 1176-1177, 1221-1222
Named(bk) == [bk EXCEPT !.names = TRUE, !.halflives = TRUE]

\* lines 1072-1094
RECURSIVE ProductsLoop(_, _, _, _)
ProductsLoop(bk, products, i, n) ==
    IF i > Len(products) THEN bk
    ELSE IF n.element = RemoveDigits(products[i]) /\ MassElement(n) = products[i]
    THEN ProductsLoop(Named(bk), products, i + 1, n)
    ELSE ProductsLoop(bk, products, i + 1, n)

\* lines 1139-1162 and 1184-1207
Outlined(bk, n) ==
    [bk EXCEPT
        !.n_targets = DictSet(@, n.N, <<n.Z, n.Z>>),
        !.Z_counter = IF DictHas(bk.z_targets, n.Z) THEN @ + 1 ELSE @,
        !.z_targets = IF DictHas(@, n.Z)
                      THEN DictSet(@, n.Z + bk.Z_counter + 1, <<n.N, n.N>>)
                      ELSE DictSet(@, n.Z, <<n.N, n.N>>)]

\* lines 1112-1225, one entry of the target list
TargetEntry(bk, target, n) ==
    IF n.element # RemoveDigits(target) THEN bk
    ELSE IF FirstNumber(target) = 0 /\ n.decay_modes[1].mode = m_is
    THEN Outlined(Named(bk), n)
    ELSE IF /\ FirstNumber(target) # 0
            /\ MassElement(n) = target
            /\ n.decay_modes[1].mode = m_is
    THEN Outlined(Named(bk), n)
    ELSE IF MassElement(n) = target THEN Named(bk)
    ELSE bk

\* lines 1110-1225
RECURSIVE TargetsLoop(_, _, _, _)
TargetsLoop(bk, targets, i, n) ==
    IF i > Len(targets) THEN bk
    ELSE TargetsLoop(TargetEntry(bk, targets[i], n), targets, i + 1, n)

\* lines 1069-1230: the flags and the target bookkeeping after both lists
Matched(bk, a, products, targets, n) ==
    TargetsLoop(IF a.list_of_products # <<>>
                THEN ProductsLoop(bk, products, 1, n)
                ELSE bk,
                IF a.list_of_targets # <<>> THEN targets ELSE <<>>, 1, n)

\* lines 1235-1236
Position(n, nl, zl) ==
    <<(n.N - nl[1] + 1) * SIZE_FIELD + SIZE_GAP,
      Size(nl, zl)[2] - (n.Z - zl[1] + 2) * SIZE_FIELD>>

\* a line appended to a layer: SIZE_GAP / 2 is whole, so are the ends
Line(op, layer, id, x1, y1, x2, y2) ==
    [op |-> op, layer |-> layer, id |-> id, x1 |-> x1, y1 |-> y1,
     x2 |-> x2, y2 |-> y2]

\* lines 814-822 and 838-846: the two vertical lines of item i
Vertical(op, layer, d, i, side, nl, zl) ==
    Line(op, layer, IntToStr(d[i].key) \o <<"n", DigitChars[side + 1]>>,
         (d[i].key - nl[1] + 1 + side) * SIZE_FIELD + SIZE_GAP \div 2,
         Size(nl, zl)[2] - (d[i].val[2] - zl[1] + 2) * SIZE_FIELD - SIZE_GAP \div 2,
         (d[i].key - nl[1] + 1 + side) * SIZE_FIELD + SIZE_GAP \div 2,
         Size(nl, zl)[2] - (d[i].val[1] - zl[1] + 1) * SIZE_FIELD - SIZE_GAP \div 2)

\* lines 825-834 and 848-856: the two horizontal lines of item i, in the
\* row the key names once shift is taken off it
Horizontal(op, layer, d, i, side, shift, nl, zl) ==
    Line(op, layer, IntToStr(d[i].key) \o <<"z", DigitChars[side + 1]>>,
         (d[i].val[1] - nl[1] + 1) * SIZE_FIELD + SIZE_GAP \div 2,
         Size(nl, zl)[2] - (d[i].key - shift - zl[1] + 2 - side) * SIZE_FIELD - SIZE_GAP \div 2,
         (d[i].val[2] - nl[1] + 2) * SIZE_FIELD + SIZE_GAP \div 2,
         Size(nl, zl)[2] - (d[i].key - shift - zl[1] + 2 - side) * SIZE_FIELD - SIZE_GAP \div 2)

\* lines 812-834: Z_counter is the number of items already drawn
draw_target_border(nt, zt, nl, zl) ==
    [j \in 1..(2 * Len(nt)) |->
        Vertical("_draw_border_line", 4, nt, (j + 1) \div 2, (j + 1) % 2, nl, zl)]
    \o
    [j \in 1..(2 * Len(zt)) |->
        Horizontal("_draw_border_line", 4, zt, (j + 1) \div 2, (j + 1) % 2,
                   (j + 1) \div 2 - 1, nl, zl)]

\* lines 836-856
draw_magic_lines(nm, zm, nl, zl) ==
    [j \in 1..(2 * Len(nm)) |->
        Vertical("_draw_line", 2, nm, (j + 1) \div 2, (j + 1) % 2, nl, zl)]
    \o
    [j \in 1..(2 * Len(zm)) |->
        Horizontal("_draw_line", 2, zm, (j + 1) \div 2, (j + 1) % 2, 0, nl, zl)]

\* lines 862-864 and 872-874: the scan for the first occupied cell of a
\* column or row, given as a function from 0.  The cell is read before the
\* index is tested: -1 stands for the IndexError of reading past the end.
RECURSIVE FirstOccupied(_, _, _)
FirstOccupied(cells, k, len) ==
    IF k \notin DOMAIN cells THEN -1
    ELSE IF ~cells[k] /\ k < len THEN FirstOccupied(cells, k + 1, len)
    ELSE k

\* lines 865-868 and 875-878; x4 and y4 are in quarters of a pixel, so that
\* SIZE_SHAPE / 2 and 1.25 * SIZE_FONT stay whole
AxisNumber(x4, y4, number) ==
    [op |-> "_draw_text", layer |-> 3, x4 |-> x4, y4 |-> y4,
     color |-> "#000000", font4 |-> 6 * SIZE_FONT, text |-> IntToStr(number)]

\* lines 861-868 for column n, z_first being what the scan gave
ColumnNumber(st, n, z_first, nl, zl) ==
    IF z_first = -1 THEN [st EXCEPT !.raised = "IndexError"]
    ELSE [st EXCEPT !.texts = Append(@,
             AxisNumber(4 * ((n + 1) * SIZE_FIELD + SIZE_GAP) + 2 * SIZE_SHAPE,
                        4 * (Size(nl, zl)[2] - (z_first + 1) * SIZE_FIELD + SIZE_GAP)
                            + 5 * SIZE_FONT,
                        n + nl[1]))]

\* lines 859-868
RECURSIVE ColumnNumbers(_, _, _, _, _)
ColumnNumbers(st, n, sh, nl, zl) ==
    IF n > nl[2] - nl[1] \/ st.raised # "none" THEN st
    ELSE IF (n + nl[1]) % 2 = 0 /\ n + nl[1] > 0
    THEN ColumnNumbers(ColumnNumber(st, n,
                                    FirstOccupied(sh[n], 0, zl[2] - zl[1] + 1),
                                    nl, zl),
                       n + 1, sh, nl, zl)
    ELSE ColumnNumbers(st, n + 1, sh, nl, zl)

\* lines 871-878 for row z, n_first being what the scan gave
RowNumber(st, z, n_first, nl, zl) ==
    IF n_first = -1 THEN [st EXCEPT !.raised = "IndexError"]
    ELSE [st EXCEPT !.texts = Append(@,
             AxisNumber(4 * (n_first * SIZE_FIELD + 3 * SIZE_GAP) + 2 * SIZE_SHAPE,
                        4 * (Size(nl, zl)[2] - (z + 2) * SIZE_FIELD + 2 * SIZE_GAP)
                            + 2 * SIZE_SHAPE,
                        z + zl[1]))]

\* lines 869-878
RECURSIVE RowNumbers(_, _, _, _, _)
RowNumbers(st, z, sh, nl, zl) ==
    IF z > zl[2] - zl[1] \/ st.raised # "none" THEN st
    ELSE IF (z + (zl[1] % 2)) % 2 = 0 /\ z + zl[1] > 0
    THEN RowNumbers(RowNumber(st, z,
                              FirstOccupied([n \in DOMAIN sh |-> sh[n][z]], 0,
                                            nl[2] - nl[1] + 1),
                              nl, zl),
                    z + 1, sh, nl, zl)
    ELSE RowNumbers(st, z + 1, sh, nl, zl)

\* lines 858-878
draw_numbers(sh, nl, zl) ==
    RowNumbers(ColumnNumbers([texts |-> <<>>, raised |-> "none"], 0, sh, nl, zl),
               0, sh, nl, zl)

(***************************************************************************)
(* The inputs InitMain draws from: data files of light nuclides.           *)
(***************************************************************************)
hl_stable == HalfLife(<<"s", "t", "a", "b", "l", "e">>, <<>>, <<"=">>, "False")

Light(N, Z, element, decay_modes, half_life, isomers) ==
    [A |-> N + Z, N |-> N, Z |-> Z, element |-> element,
     decay_modes |-> decay_modes, half_life |-> half_life,
     isomers |-> isomers]

el_H == <<"H">>
el_He == <<"H", "e">>
el_Li == <<"L", "i">>

Nuclides ==
    {Light(0, 1, el_H, <<Entry(m_is, v_100)>>, hl_stable, <<>>),
     Light(1, 1, el_H, <<Entry(m_is, v_68)>>, hl_stable, <<>>),
     Light(2, 1, el_H, <<Entry(m_bm, v_100)>>, hl_known,
           <<Isomer(HalfLife(<<"4", ".", "5">>, <<"h">>, <<"=">>, "False"),
                    <<Entry(m_it, v_100)>>)>>),
     Light(1, 2, el_He, <<Entry(m_is, v_5)>>, hl_stable, <<>>),
     Light(2, 2, el_He, <<Entry(m_is, v_100)>>, hl_stable, <<>>),
     Light(3, 3, el_Li, <<Entry(m_is, v_5plus)>>, hl_stable, <<>>),
     Light(4, 3, el_Li, <<Entry(m_is, v_68), Entry(m_a, v_5)>>, hl_stable,
           <<>>)}

\* the documents: up to MaxData different nuclides, in any order
DataFiles ==
    {d \in SeqsUpTo(Nuclides, MaxData) :
        \A i, j \in DOMAIN d : d[i] = d[j] => i = j}

\* the --p and --t options given together: --t '0H', '2H 3He', '0H 0Li',
\* ' 7Li 0Li ', '3H 3He'; --p '4He'; --p '3H 6Li' with --t '0H'
ListOptions ==
    {[p |-> <<>>, t |-> <<<<"0", "H">>>>],
     [p |-> <<>>, t |-> <<<<"2", "H", " ", "3", "H", "e">>>>],
     [p |-> <<>>, t |-> <<<<"0", "H", " ", "0", "L", "i">>>>],
     [p |-> <<>>, t |-> <<<<" ", "7", "L", "i", " ", "0", "L", "i", " ">>>>],
     [p |-> <<>>, t |-> <<<<"3", "H", " ", "3", "H", "e">>>>],
     [p |-> <<<<"4", "H", "e">>>>, t |-> <<>>],
     [p |-> <<<<"3", "H", " ", "6", "L", "i">>>>, t |-> <<<<"0", "H">>>>]}

Options(names, halflives, magic, numbers, N, lists) ==
    [names |-> names, halflives |-> halflives, isomers |-> TRUE,
     unknown |-> TRUE, magic |-> magic, numbers |-> numbers, N |-> N,
     Z |-> <<0, 120>>, list_of_products |-> lists.p,
     list_of_targets |-> lists.t]

\* the variables before the first iteration binds them
NoNuclide == Light(0, 0, <<>>, <<>>, hl_known, <<>>)

\* a target or product list, the chart decorations off
InitLists ==
    \E names \in BOOLEAN, halflives \in BOOLEAN, lists \in ListOptions :
        args = Options(names, halflives, FALSE, FALSE, <<0, 180>>, lists)

\* no list, the chart decorations on or off, two N ranges
InitDecorated ==
    \E magic \in BOOLEAN, numbers \in BOOLEAN, N \in {<<0, 180>>, <<1, 180>>} :
        args = Options(TRUE, TRUE, magic, numbers, N, [p |-> <<>>, t |-> <<>>])

\* the state after parse_args (line 925)
InitMain ==
    /\ datafile \in DataFiles
    /\ (InitLists \/ InitDecorated)
    /\ nuclide = NoNuclide
    /\ is_isomer = FALSE
    /\ pc = "setup"
    /\ calls = 0
    /\ before = <<>>
    /\ drawn = <<>>
    /\ raised = "none"
    /\ locals = NoLocals
    /\ first = [before |-> <<>>, drawn |-> <<>>, locals |-> NoLocals]
    /\ data = <<>>
    /\ cursor = 1
    /\ individual_products = <<>>
    /\ individual_targets = <<>>
    /\ n_limits = <<0, 0>>
    /\ z_limits = <<0, 0>>
    /\ shape = <<>>
    /\ n_magic = <<>>
    /\ z_magic = <<>>
    /\ n_targets = <<>>
    /\ z_targets = <<>>
    /\ Z_counter = 0
    /\ chart = <<>>

(***************************************************************************)
(* Actions of the main program.                                            *)
(***************************************************************************)
\* the load's effects, ld being what load_xml_nuclear_table gave
Loaded(ld) ==
    /\ data' = ld.data
    /\ n_limits' = ld.n_limits
    /\ z_limits' = ld.z_limits
    /\ shape' = EmptyShape(ld.n_limits, ld.z_limits)

\* lines 929-1017: the lists are split, the data loaded, the grid and the
\* dicts created
Setup ==
    /\ pc = "setup"
    /\ args' = IF args.list_of_products # <<>> \/ args.list_of_targets # <<>>
                THEN [args EXCEPT !.names = FALSE, !.halflives = FALSE]
                ELSE args
    /\ individual_products' \in Individual(args.list_of_products)
    /\ individual_targets' \in Individual(args.list_of_targets)
    /\ Loaded(load_xml_nuclear_table(datafile, args))
    /\ n_magic' = <<>>
    /\ z_magic' = <<>>
    /\ n_targets' = <<>>
    /\ z_targets' = <<>>
    /\ Z_counter' = 0
    /\ pc' = "loop"
    /\ UNCHANGED <<nuclide, is_isomer, calls, before, drawn, raised, locals,
                   first, datafile, cursor, chart>>

\* the iteration's effects: bk is the flags and target bookkeeping after
\* lines 1069-1230, r what draw_nuclide did when called with them.  Only
\* IndexError is caught (line 1239); another exception ends the program.
Visited(n, bk, r) ==
    /\ args' = [args EXCEPT !.names = bk.names, !.halflives = bk.halflives]
    /\ n_targets' = bk.n_targets
    /\ z_targets' = bk.z_targets
    /\ Z_counter' = bk.Z_counter
    /\ nuclide' = [n EXCEPT !.decay_modes = r.decay_modes]
    /\ before' = n.decay_modes
    /\ drawn' = r.drawn
    /\ raised' = r.raised
    /\ locals' = r.locals
    /\ pc' = IF r.raised \in {"none", "IndexError"} THEN "loop" ELSE "aborted"

\* lines 1069-1238 for nuclide n with the flags a of lines 1020-1027
Visit(n, a, isom) ==
    /\ is_isomer' = isom
    /\ \E bk \in {Matched([names |-> a.names, halflives |-> a.halflives,
                           n_targets |-> n_targets, z_targets |-> z_targets,
                           Z_counter |-> Z_counter],
                          a, individual_products, individual_targets, n)} :
       \E r \in {draw_nuclide(n, [a EXCEPT !.names = bk.names,
                                           !.halflives = bk.halflives], isom)} :
           Visited(n, bk, r)

\* lines 1018-1240: one iteration of the main loop
LoopBody ==
    /\ pc = "loop"
    /\ cursor <= Len(data)
    /\ Visit(data[cursor], ResetFlags(args),
             MainIsomerScan(data[cursor].isomers, 1, FALSE))
    /\ n_magic' = MagicUpdate(n_magic, data[cursor].N, data[cursor].Z)
    /\ z_magic' = MagicUpdate(z_magic, data[cursor].Z, data[cursor].N)
    /\ shape' = [shape EXCEPT ![data[cursor].N - n_limits[1]]
                                [data[cursor].Z - z_limits[1]] = TRUE]
    /\ calls' = calls + 1
    /\ cursor' = cursor + 1
    /\ UNCHANGED <<first, datafile, data, individual_products,
                   individual_targets, n_limits, z_limits, chart>>

\* lines 1243-1249, after the last nuclide
DrawTargetBorder ==
    /\ pc = "loop"
    /\ cursor > Len(data)
    /\ chart' = chart \o draw_target_border(n_targets, z_targets, n_limits,
                                            z_limits)
    /\ pc' = "magic"
    /\ UNCHANGED <<nuclide, args, is_isomer, calls, before, drawn, raised,
                   locals, first, datafile, data, cursor, individual_products,
                   individual_targets, n_limits, z_limits, shape, n_magic,
                   z_magic, n_targets, z_targets, Z_counter>>

\* lines 1250-1253
DrawMagicLines ==
    /\ pc = "magic"
    /\ chart' = IF args.magic
                THEN chart \o draw_magic_lines(n_magic, z_magic, n_limits,
                                               z_limits)
                ELSE chart
    /\ pc' = "numbers"
    /\ UNCHANGED <<nuclide, args, is_isomer, calls, before, drawn, raised,
                   locals, first, datafile, data, cursor, individual_products,
                   individual_targets, n_limits, z_limits, shape, n_magic,
                   z_magic, n_targets, z_targets, Z_counter>>

\* the effects of draw_numbers, st being what it drew and raised: the call
\* is in no try, so its IndexError ends the program before the file is
\* written
Numbered(st) ==
    /\ chart' = chart \o st.texts
    /\ raised' = st.raised
    /\ pc' = IF st.raised = "none" THEN "written" ELSE "aborted"

\* lines 1254-1255
DrawNumbers ==
    /\ pc = "numbers"
    /\ IF args.numbers
       THEN Numbered(draw_numbers(shape, n_limits, z_limits))
       ELSE Numbered([texts |-> <<>>, raised |-> "none"])
    /\ UNCHANGED <<nuclide, args, is_isomer, calls, before, drawn, locals,
                   first, datafile, data, cursor, individual_products,
                   individual_targets, n_limits, z_limits, shape, n_magic,
                   z_magic, n_targets, z_targets, Z_counter>>

NextMain ==
    Setup \/ LoopBody \/ DrawTargetBorder \/ DrawMagicLines \/ DrawNumbers

SpecMain == InitMain /\ [][NextMain]_vars

(***************************************************************************)
(* Properties of draw_nuclide, read on the state a call leaves behind:     *)
(* before is the list the call received, nuclide.decay_modes the list it   *)
(* left, drawn its draw calls, raised the exception it ended with.         *)
(***************************************************************************)
HasBasicAfterFirst(dm) == \E i \in 2..Len(dm) : dm[i].mode \in basic_decay_modes

Classified == calls >= 1 /\ locals.outcome \in {"normal", "isomer"}

Stable == locals.primary_color = "#000000"

\* the texts that annotate the ground state's half-life: the half-life text
\* of the normal rendering and the ground caption of the isomer rendering
HalfLifeTexts ==
    {j \in DOMAIN drawn : /\ drawn[j].op = "_draw_text"
                          /\ drawn[j].at \in {"half_life", "x2y1"}}

InsetRectangles ==
    {j \in DOMAIN drawn : drawn[j].op = "_draw_isomer_rectangle"}

\* the time units the isomer test accepts, as the specification lists them
TimeUnits ==
    {<<"s">>, <<"m">>, <<"h">>, <<"d">>, <<"y">>, <<"k", "y">>, <<"M", "y">>,
     <<"G", "y">>, <<"T", "y">>, <<"P", "y">>, <<"E", "y">>, <<"Z", "y">>,
     <<"Y", "y">>}

GenuineEntry(i) ==
    /\ nuclide.isomers[i].half_life.relation = <<"=">>
    /\ nuclide.isomers[i].half_life.unit \in TimeUnits

GenuineEntries == {i \in DOMAIN nuclide.isomers : GenuineEntry(i)}

\* C1: a call of draw_nuclide never ends with an exception that would leave
\* the main loop: for every record and every option combination it returns
\* normally. (Refuted: the isomer caption of a record whose half-life value
\* is "?" reads half_life_unit before it is assigned.)
C1_NeverRaises == raised = "none"

\* C2 as written: when the first mode is not basic and no later entry is
\* basic, the call draws nothing. (Refuted: "?" is drawn when unknown
\* isotopes are enabled.)
C2_NoBasicDrawsNothing ==
    (/\ calls >= 1
     /\ before[1].mode \notin basic_decay_modes
     /\ ~HasBasicAfterFirst(before))
    => drawn = <<>>

\* C2 amended: when the first mode is not basic, is not a "?" taken because
\* unknown isotopes are enabled, and no later entry is basic, the call
\* returns before classification: nothing is drawn, nothing is raised and
\* the list is left as it was.
C2_NoBasicSkips ==
    (/\ calls >= 1
     /\ before[1].mode \notin basic_decay_modes
     /\ ~(before[1].mode = <<"?">> /\ args.unknown)
     /\ ~HasBasicAfterFirst(before))
    => /\ locals.outcome = "skip"
       /\ drawn = <<>>
       /\ raised = "none"
       /\ nuclide.decay_modes = before

C2_Witness ==
    /\ calls >= 1
    /\ Len(before) >= 2
    /\ before[1].mode = <<"b", "+", "p">>
    /\ ~HasBasicAfterFirst(before)
    /\ locals.outcome = "skip"

\* C3: with unknown isotopes disabled, a record whose first mode is "?" is
\* not drawn. (Refuted: a later basic entry is swapped to the front and the
\* record is drawn in that entry's colour.)
C3_UnknownDisabledNotDrawn ==
    (/\ calls >= 1
     /\ before[1].mode = <<"?">>
     /\ ~args.unknown)
    => drawn = <<>>

\* C4: when the first mode is basic the list is not reordered and the
\* primary colour is the colour of that first mode, which is the colour of
\* the base rectangle.
C4_BasicFirstKept ==
    (calls >= 1 /\ before[1].mode \in basic_decay_modes)
    => /\ nuclide.decay_modes = before
       /\ locals.primary_color = COLORS[before[1].mode]
       /\ drawn # <<>> => /\ drawn[1].op = "_draw_rectangle"
                          /\ drawn[1].color = COLORS[before[1].mode]

C4_Witness ==
    /\ calls >= 1
    /\ Len(before) >= 2
    /\ before[1].mode = <<"a">>
    /\ before[2].mode \in basic_decay_modes
    /\ drawn # <<>>
    /\ drawn[1].color = "#fffe49"

\* C5: a second call on the same record decides as the first did (the same
\* skip decision, colours, sizes, corners and texts) and reorders nothing
\* further: after the first call the list already starts with the entry the
\* classification reads as primary.
C5_SecondCallSame ==
    calls >= 2
    => /\ locals = first.locals
       /\ drawn = first.drawn
       /\ nuclide.decay_modes = before

C5_Witness ==
    /\ calls = 2
    /\ first.before # nuclide.decay_modes
    /\ first.before[1].mode = <<"b", "+", "p">>
    /\ locals.secondary_size # "None"
    /\ drawn # <<>>

\* C6: for a two-entry list whose second entry is basic with a parseable
\* value v, the secondary marker is large exactly when v > 5.0 and the
\* primary mode is not stable, small when v > 0.0 otherwise, and absent when
\* v <= 0.0; the values are the literal strings of the records.
C6_SecondaryThreshold ==
    (/\ Classified
     /\ Len(nuclide.decay_modes) = 2
     /\ nuclide.decay_modes[2].mode \in basic_decay_modes)
    => LET value == nuclide.decay_modes[2].value
           size  == locals.secondary_size
       IN  /\ value = <<"5", ".", "0">> => size = "small"
           /\ value = <<"5", ".", "0", "0", "0", "1">>
                => size = IF Stable THEN "small" ELSE "large"
           /\ value = <<"6", "8", ".", "2">>
                => size = IF Stable THEN "small" ELSE "large"
           /\ value = <<"1", "0", "0">>
                => size = IF Stable THEN "small" ELSE "large"
           /\ value = <<"0">> => size = "None"
           /\ size = "large"
                => /\ drawn[2].op = "_draw_triangle"
                   /\ drawn[2].color = COLORS[nuclide.decay_modes[2].mode]
           /\ size = "small"
                => /\ drawn[2].op = "_draw_small_triangle"
                   /\ drawn[2].color = COLORS[nuclide.decay_modes[2].mode]
           /\ size = "None"
                => \A j \in DOMAIN drawn :
                       drawn[j].op \notin {"_draw_triangle",
                                           "_draw_small_triangle"}

C6_Witness ==
    /\ Classified
    /\ Len(nuclide.decay_modes) = 2
    /\ ~Stable
    /\ nuclide.decay_modes[2].mode = <<"a">>
    /\ nuclide.decay_modes[2].value = <<"5", ".", "0">>
    /\ locals.secondary_size = "small"
    /\ drawn[2].op = "_draw_small_triangle"

\* C7: the isomer rendering encodes one isomer only: at most one inset
\* rectangle is drawn and every isomer element comes from the first genuine
\* entry of the list. (Refuted: the loop has no break, so every genuine
\* entry draws its own inset rectangle, line and captions.)
C7_OneIsomerEncoded ==
    calls >= 1
    => /\ Cardinality(InsetRectangles) <= 1
       /\ \A j \in DOMAIN drawn :
              drawn[j].iso # 0
              => \A i \in GenuineEntries : drawn[j].iso <= i

\* C8: an entry of the isomer list counts as an isomer exactly when its
\* half-life relation is "=" and its unit is one of the time units: the
\* record is flagged when such an entry exists, only such entries are
\* drawn, and a genuine entry is found behind entries that are not.
C8_GenuineIsomers ==
    /\ pc = "draw" => (is_isomer <=> GenuineEntries # {})
    /\ calls >= 1
       => /\ \A j \in DOMAIN drawn :
                 drawn[j].iso # 0 => drawn[j].iso \in GenuineEntries
          /\ (locals.outcome = "isomer" /\ args.names)
             => \E i \in GenuineEntries :
                    /\ \A k \in GenuineEntries : i <= k
                    /\ \E j \in InsetRectangles : drawn[j].iso = i

C8_Witness ==
    /\ calls >= 1
    /\ Len(nuclide.isomers) = 2
    /\ GenuineEntries = {2}
    /\ nuclide.isomers[1].half_life.unit = <<"n", "s">>
    /\ \E j \in InsetRectangles : drawn[j].iso = 2

\* C9: for a stable record every half-life annotation that is drawn reads
\* decay_modes[0].value followed by "%". (Refuted: the ground caption of
\* the isomer rendering shows the half-life value, never the abundance.)
C9_StableShowsAbundance ==
    (Classified /\ Stable)
    => \A j \in HalfLifeTexts :
           drawn[j].text = nuclide.decay_modes[1].value \o <<"%">>

\* C10 as written: for a non-stable record whose half-life value is "?"
\* the half-life annotation reads decay_modes[0].value followed by "%".
\* (Refuted: the normal rendering draws the "?" itself.)
C10_UnknownShowsPercent ==
    (Classified /\ ~Stable /\ nuclide.half_life.value = <<"?">>)
    => \A j \in HalfLifeTexts :
           drawn[j].text = nuclide.decay_modes[1].value \o <<"%">>

\* C10 amended: for a non-stable record whose half-life value is "?" the
\* normal rendering draws the "?" alone, without unit or relation, as its
\* half-life text; decay_modes[0].value followed by "%" is what the isomer
\* rendering draws as the ground caption.
C10_UnknownHalfLife ==
    (Classified /\ ~Stable /\ nuclide.half_life.value = <<"?">>)
    => \A j \in HalfLifeTexts :
           drawn[j].text = IF drawn[j].at = "half_life"
                           THEN <<"?">>
                           ELSE nuclide.decay_modes[1].value \o <<"%">>

C10_Witness ==
    /\ Classified
    /\ ~Stable
    /\ nuclide.half_life.value = <<"?">>
    /\ nuclide.half_life.relation # <<"=">>
    /\ \E j \in HalfLifeTexts : /\ drawn[j].at = "half_life"
                                /\ drawn[j].text = <<"?">>

\* the half-life value as it is shown: a value written with an exponent is
\* reformatted to one decimal, any other value is shown as it is
ShownValue(value) ==
    IF value = <<"1", ".", "5", "6", "e", "3">>
    THEN <<"1", ".", "6", "e", "+", "0", "3">>
    ELSE IF value = <<"2", "E", "-", "7">>
    THEN <<"2", ".", "0", "e", "-", "0", "7">>
    ELSE value

KnownHalfLife == Classified /\ ~Stable /\ nuclide.half_life.value # <<"?">>

TextsAt(at) ==
    {j \in DOMAIN drawn : drawn[j].op = "_draw_text" /\ drawn[j].at = at}

\* C11 as written: for a non-stable record with a known half-life the
\* annotation is value, blank, unit when the relation is "=", and relation,
\* blank, value without the unit otherwise. (Refuted: the normal rendering
\* keeps the unit behind the value.)
C11_RelationDropsUnit ==
    KnownHalfLife
    => \A j \in TextsAt("half_life") :
           drawn[j].text =
               IF nuclide.half_life.relation = <<"=">>
               THEN ShownValue(nuclide.half_life.value) \o <<" ">>
                    \o nuclide.half_life.unit
               ELSE nuclide.half_life.relation \o <<" ">>
                    \o ShownValue(nuclide.half_life.value)

\* C11 amended: for a non-stable record with a known half-life the normal
\* rendering draws value, blank, unit, with relation and a blank in front
\* when the relation is not "=" (the unit is kept); the isomer rendering
\* draws the ground caption as two texts, value and unit when the relation
\* is "=", the relation and the value as read otherwise (the unit dropped).
C11_RelationText ==
    KnownHalfLife
    => /\ \A j \in TextsAt("half_life") :
              drawn[j].text =
                  (IF nuclide.half_life.relation = <<"=">> THEN <<>>
                   ELSE nuclide.half_life.relation \o <<" ">>)
                  \o ShownValue(nuclide.half_life.value) \o <<" ">>
                  \o nuclide.half_life.unit
       /\ \A j \in TextsAt("x2y1") :
              drawn[j].text =
                  IF nuclide.half_life.relation = <<"=">>
                  THEN ShownValue(nuclide.half_life.value)
                  ELSE nuclide.half_life.relation
       /\ \A j \in TextsAt("x2y2") :
              drawn[j].text =
                  IF nuclide.half_life.relation = <<"=">>
                  THEN nuclide.half_life.unit
                  ELSE nuclide.half_life.value

C11_Witness ==
    /\ KnownHalfLife
    /\ nuclide.half_life.relation = <<"<">>
    /\ \E j \in TextsAt("half_life") :
           drawn[j].text = <<"<", " ", "3", "0", " ", "s">>

\* the texts that show a half-life of the ground state
GroundHalfLifeTexts ==
    TextsAt("half_life") \cup TextsAt("x2y1") \cup TextsAt("x2y2")

\* C12: a half-life flagged as extrapolated is never shown: no text of the
\* call is a half-life text of the ground state or contains the half-life
\* value. (Refuted: the isomer rendering never reads the flag.)
C12_ExtrapolatedHidden ==
    (calls >= 1 /\ nuclide.half_life.extrapolated = "True")
    => /\ GroundHalfLifeTexts = {}
       /\ \A j \in DOMAIN drawn :
              drawn[j].op = "_draw_text"
              => drawn[j].text # nuclide.half_life.value

\* C13: with half-lives disabled no half-life text is drawn, of the ground
\* state or of an isomer. (Refuted: the isomer rendering never reads
\* args.halflives.)
C13_HalfLivesDisabled ==
    (calls >= 1 /\ ~args.halflives)
    => /\ GroundHalfLifeTexts = {}
       /\ TextsAt("x1y1") = {}
       /\ TextsAt("x1y2") = {}

\* C14: a record whose half-life value contains "unstable" is never drawn:
\* the call issues no draw call at all and raises nothing, whatever the
\* decay list, the isomers and the options are.
C14_UnstableNotDrawn ==
    (/\ calls >= 1
     /\ nuclide.half_life.value
          = <<"p", "-", "u", "n", "s", "t", "a", "b", "l", "e">>)
    => /\ drawn = <<>>
       /\ raised = "none"
       /\ locals.outcome \in {"skip", "unstable"}

C14_Witness ==
    /\ calls >= 1
    /\ nuclide.half_life.value
         = <<"p", "-", "u", "n", "s", "t", "a", "b", "l", "e">>
    /\ locals.outcome = "unstable"
    /\ Len(nuclide.decay_modes) = 2
    /\ is_isomer /\ args.isomers /\ args.names /\ args.halflives
    /\ drawn = <<>>

\* an entry the secondary and tertiary scans can take a marker from: a
\* basic mode with a branching above zero, or a cluster emission
PositiveValues ==
    {<<"1", "0", "0">>, <<"6", "8", ".", "2">>, <<"5", ".", "0">>,
     <<"5", ".", "0", "0", "0", "1">>}

Qualifies(e) ==
    \/ e.mode \in basic_decay_modes /\ e.value \in PositiveValues
    \/ e.mode = <<"1", "4", "c">>

FirstQualifying(from) ==
    LET q == {i \in from..Len(nuclide.decay_modes) :
                Qualifies(nuclide.decay_modes[i])}
    IN  IF q = {} THEN 0 ELSE CHOOSE i \in q : \A j \in q : i <= j

MarkerColor(e) ==
    IF e.mode = <<"1", "4", "c">> THEN "#a564cc" ELSE COLORS[e.mode]

\* C15: the secondary marker is that of the first qualifying entry behind
\* the primary one; later entries do not change it. (Refuted: the scan
\* does not stop at a basic entry, the last qualifying entry decides.)
C15_FirstQualifyingSecondary ==
    (Classified /\ FirstQualifying(2) # 0)
    => LET e == nuclide.decay_modes[FirstQualifying(2)]
       IN  /\ locals.secondary_color = MarkerColor(e)
           /\ locals.secondary_size =
                IF /\ e.mode \in basic_decay_modes
                   /\ e.value # <<"5", ".", "0">>
                   /\ ~Stable
                THEN "large" ELSE "small"

TertiaryAttempted ==
    /\ Classified
    /\ Len(nuclide.decay_modes) >= 3
    /\ \/ locals.secondary_size = "large"
       \/ locals.secondary_size = "small" /\ Stable

\* C16: the tertiary marker is small and taken from the first qualifying
\* entry of decay_modes[2:]; a basic entry with a value of zero or less
\* does not end the scan. (Refuted: the scan breaks at the first basic
\* entry whose value parses, whatever the value.)
C16_FirstQualifyingTertiary ==
    TertiaryAttempted
    => IF FirstQualifying(3) = 0
       THEN locals.tertiary_size = "None"
       ELSE /\ locals.tertiary_size = "small"
            /\ locals.tertiary_color
                 = MarkerColor(nuclide.decay_modes[FirstQualifying(3)])

ShapesOf(k, ops, id) ==
    {j \in DOMAIN drawn : /\ drawn[j].iso = k
                          /\ drawn[j].op \in ops
                          /\ drawn[j].id = id}

SmallOps == {"_draw_small_triangle", "_draw_small_isomer_triangle"}

\* C17: a tertiary marker is drawn only behind at least three entries and
\* a large secondary marker, or a small one on a stable primary colour;
\* for the ground state and for every isomer encoding.
C17_TertiaryGuard ==
    calls >= 1
    => /\ ShapesOf(0, SmallOps, "2") # {}
          => /\ Len(nuclide.decay_modes) >= 3
             /\ \/ ShapesOf(0, {"_draw_triangle"}, "1") # {}
                \/ ShapesOf(0, SmallOps, "1") # {} /\ Stable
       /\ (locals.tertiary_size = "small") <=> (ShapesOf(0, SmallOps, "2") # {})
       /\ \A k \in DOMAIN nuclide.isomers :
              ShapesOf(k, SmallOps, "2") # {}
              => /\ Len(nuclide.isomers[k].decay_modes) >= 3
                 /\ \/ ShapesOf(k, {"_draw_triangle"}, "1") # {}
                    \/ /\ ShapesOf(k, SmallOps, "1") # {}
                       /\ \E j \in ShapesOf(k, {"_draw_isomer_rectangle"}, "ib") :
                              drawn[j].color = "#000000"

C17_Witness ==
    /\ calls >= 1
    /\ Stable
    /\ Len(nuclide.decay_modes) = 3
    /\ ShapesOf(0, SmallOps, "1") # {}
    /\ ShapesOf(0, SmallOps, "2") # {}

GroundTriangles ==
    {j \in DOMAIN drawn :
        /\ drawn[j].iso = 0
        /\ drawn[j].op \in {"_draw_triangle", "_draw_small_triangle"}}

\* the colour drawn before a ground marker: the primary colour, and for
\* the tertiary marker the secondary colour as well
PriorColors(j) ==
    IF drawn[j].id = "2"
    THEN {locals.primary_color, locals.secondary_color}
    ELSE {locals.primary_color}

\* C18: a secondary or tertiary marker in the alpha colour is top-left; one
\* in the beta-plus colour is top-left when no colour before it is the alpha
\* or the proton colour, and is not top-left when the primary colour is the
\* alpha or the proton colour. (Refuted: the tertiary rule does not test
\* the proton colour.)
C18_TopLeftRule ==
    Classified
    => \A j \in GroundTriangles :
           /\ drawn[j].color = "#fffe49" => drawn[j].corner = "lt"
           /\ (/\ drawn[j].color = "#ff7e75"
               /\ PriorColors(j) \cap {"#fffe49", "#ffa425"} = {})
              => drawn[j].corner = "lt"
           /\ (/\ drawn[j].color = "#ff7e75"
               /\ locals.primary_color \in {"#fffe49", "#ffa425"})
              => drawn[j].corner # "lt"

FirstBasicOf(dm) ==
    CHOOSE i \in 2..Len(dm) :
        /\ dm[i].mode \in basic_decay_modes
        /\ \A j \in 2..(i - 1) : dm[j].mode \notin basic_decay_modes

\* C19: when the first mode is neither basic nor an accepted "?" and a
\* later entry is basic, the first basic entry is exchanged with position 0
\* and gives the primary colour; every other position keeps its entry.
C19_SwapFirstBasic ==
    (/\ calls >= 1
     /\ before[1].mode \notin basic_decay_modes
     /\ ~(before[1].mode = <<"?">> /\ args.unknown)
     /\ HasBasicAfterFirst(before))
    => /\ nuclide.decay_modes
            = [before EXCEPT ![1] = before[FirstBasicOf(before)],
                             ![FirstBasicOf(before)] = before[1]]
       /\ locals.primary_color = COLORS[before[FirstBasicOf(before)].mode]
       /\ drawn # <<>> => drawn[1].color = locals.primary_color

C19_Witness ==
    /\ calls = 1
    /\ Len(before) = 4
    /\ before[1].mode = <<"b", "+", "p">>
    /\ before[2].mode = <<"1", "4", "c">>
    /\ before[3].mode = <<"a">>
    /\ before[4].mode = <<"b", "-">>
    /\ nuclide.decay_modes[1].mode = <<"a">>
    /\ nuclide.decay_modes[3].mode = <<"b", "+", "p">>
    /\ drawn # <<>>

\* C20: in the isomer rendering the ground state's secondary and tertiary
\* triangles are not drawn. (Refuted: they are drawn before the isomer
\* rendering is entered.)
C20_IsomerReplacesGround ==
    (/\ calls >= 1
     /\ locals.outcome = "isomer"
     /\ args.names
     /\ GenuineEntries # {})
    => GroundTriangles = {}

IsomerRendering ==
    /\ calls >= 1
    /\ locals.outcome = "isomer"
    /\ GenuineEntries # {}

\* C21: a drawn record with a genuine isomer and isomer display enabled
\* gets the inset rectangle, the divider line and the half-life captions
\* of ground state and isomer, whatever names and halflives are. (Refuted:
\* the whole isomer rendering is nested under args.names.)
C21_IsomerInsetDrawn ==
    IsomerRendering
    => /\ InsetRectangles # {}
       /\ \E j \in DOMAIN drawn : drawn[j].op = "_draw_isomer_line"
       /\ TextsAt("x2y1") # {}
       /\ TextsAt("x1y1") # {}

AcceptedPrimary(idm) ==
    {i \in DOMAIN idm : idm[i].mode \in basic_decay_modes \cup {<<"i", "t">>}}

\* C22: the isomer classification gives the primary colour the ground
\* classification would give the isomer's list with "it" accepted: the
\* colour of the first entry when it is accepted, else of a later accepted
\* entry moved to the front, and no encoding at all when there is none.
\* (Refuted: the isomer path reads the first entry only and otherwise
\* keeps the colour it had.)
C22_IsomerPrimaryLikeGround ==
    calls >= 1
    => \A j \in InsetRectangles :
           LET idm == nuclide.isomers[drawn[j].iso].decay_modes
           IN  /\ AcceptedPrimary(idm) # {}
               /\ \E i \in AcceptedPrimary(idm) :
                      /\ \A m \in AcceptedPrimary(idm) : i <= m
                      /\ drawn[j].color = COLORS[idm[i].mode]

\* the place of a draw call in the sequence of C23; 0 for the isomer's
\* own triangles, which the sequence does not name
OrderRank(d) ==
    IF d.op = "_draw_rectangle" THEN 1
    ELSE IF d.op \in {"_draw_triangle", "_draw_small_triangle"} /\ d.iso = 0
    THEN (IF d.id = "1" THEN 2 ELSE 3)
    ELSE IF d.op = "_draw_text" /\ d.at = "name" THEN 4
    ELSE IF d.op = "_draw_text" /\ d.at = "half_life" THEN 5
    ELSE IF d.op = "_draw_isomer_rectangle" THEN 6
    ELSE IF d.op = "_draw_isomer_line" THEN 7
    ELSE IF d.op = "_draw_text" THEN 8
    ELSE 0

\* C23: the draw calls of one record come in the order base rectangle,
\* secondary marker, tertiary marker, name, half-life text, inset
\* rectangle, divider line, captions, and the base rectangle is the first.
\* (Refuted: a second genuine isomer draws its inset rectangle and line
\* behind the captions of the first.)
C23_FixedOrder ==
    (calls >= 1 /\ drawn # <<>>)
    => /\ drawn[1].op = "_draw_rectangle"
       /\ \A i, j \in DOMAIN drawn :
              (i < j /\ OrderRank(drawn[i]) # 0 /\ OrderRank(drawn[j]) # 0)
              => OrderRank(drawn[i]) <= OrderRank(drawn[j])

\* C24: every draw call of a record goes to a layer at least as high as
\* the layer of every call before it. (Refuted: the inset rectangle goes
\* to layer 0 behind triangles on layer 1 and the name on layer 3.)
C24_LayersAscend ==
    calls >= 1
    => \A i, j \in DOMAIN drawn :
           i < j => drawn[i].layer <= drawn[j].layer

\* C25: colour and size of the secondary marker come from one entry: some
\* qualifying entry behind the first has the marker's colour and implies
\* its size. (Refuted: an entry with a value of zero or less overwrites
\* the colour and keeps the size.)
C25_SecondaryOneEntry ==
    (Classified /\ locals.secondary_size # "None")
    => \E i \in 2..Len(nuclide.decay_modes) :
           LET e == nuclide.decay_modes[i]
           IN  /\ Qualifies(e)
               /\ locals.secondary_color = MarkerColor(e)
               /\ locals.secondary_size =
                    IF /\ e.mode \in basic_decay_modes
                       /\ e.value # <<"5", ".", "0">>
                       /\ ~Stable
                    THEN "large" ELSE "small"

\* C26: secondary and tertiary marker never come from the same entry: two
\* different qualifying entries, the tertiary one later, give the two
\* colours. (Refuted: the tertiary scan starts at the third entry also
\* when the secondary marker was taken from there.)
C26_TertiaryOtherEntry ==
    (/\ Classified
     /\ locals.secondary_size # "None"
     /\ locals.tertiary_size # "None")
    => \E i, j \in 2..Len(nuclide.decay_modes) :
           /\ i < j
           /\ Qualifies(nuclide.decay_modes[i])
           /\ Qualifies(nuclide.decay_modes[j])
           /\ locals.secondary_color = MarkerColor(nuclide.decay_modes[i])
           /\ locals.tertiary_color = MarkerColor(nuclide.decay_modes[j])

(***************************************************************************)
(* Properties of the main program, read on the states of SpecMain.         *)
(***************************************************************************)
\* the nuclides the main loop has been through
Processed == {data[i] : i \in 1..(cursor - 1)}

\* the main loop is over
LoopDone == pc \in {"magic", "numbers", "written", "aborted"}

Lowest(S) == CHOOSE x \in S : \A y \in S : x <= y

Highest(S) == CHOOSE x \in S : \A y \in S : y <= x

\* magic[k] = [lowest of S, highest of S]
ExtentIs(magic, k, S) ==
    \E i \in DOMAIN magic :
        magic[i].key = k /\ magic[i].val = <<Lowest(S), Highest(S)>>

\* C27: after the main loop, whatever the order of the data, n_magic[N] is
\* [lowest Z, highest Z] of the processed nuclides with that magic N, and
\* z_magic[Z] is [lowest N, highest N] of those with that magic Z; in every
\* state the lower end of an entry is at most its upper end.
C27_MagicExtents ==
    /\ \A i \in DOMAIN n_magic : n_magic[i].val[1] <= n_magic[i].val[2]
    /\ \A i \in DOMAIN z_magic : z_magic[i].val[1] <= z_magic[i].val[2]
    /\ LoopDone =>
        \A k \in {2, 8, 20, 28, 50, 82, 126} :
            /\ {n.Z : n \in {m \in Processed : m.N = k}} # {} =>
                   ExtentIs(n_magic, k, {n.Z : n \in {m \in Processed : m.N = k}})
            /\ {n.N : n \in {m \in Processed : m.Z = k}} # {} =>
                   ExtentIs(z_magic, k, {n.N : n \in {m \in Processed : m.Z = k}})

\* the entries of the target list, and those of the product list
TargetEntries ==
    IF args.list_of_targets = <<>> THEN {}
    ELSE {individual_targets[i] : i \in DOMAIN individual_targets}

ProductEntries ==
    IF args.list_of_products = <<>> THEN {}
    ELSE {individual_products[i] : i \in DOMAIN individual_products}

IsStable(n) == n.decay_modes[1].mode = <<"i", "s">>

\* n matches an entry of the target list: A+element, or mass 0 with the
\* element for a stable nuclide
TargetMatch(n) ==
    \/ IntToStr(n.A) \o n.element \in TargetEntries
    \/ IsStable(n) /\ <<"0">> \o n.element \in TargetEntries

ProductMatch(n) == IntToStr(n.A) \o n.element \in ProductEntries

\* the stable nuclides the target list selects
SelectedTargets == {n \in Processed : IsStable(n) /\ TargetMatch(n)}

\* a border line from (x1, y) to (x2, y) was drawn
BorderAt(x1, x2, y) ==
    \E j \in DOMAIN chart :
        /\ chart[j].op = "_draw_border_line"
        /\ chart[j].x1 = x1 /\ chart[j].x2 = x2
        /\ chart[j].y1 = y /\ chart[j].y2 = y

\* C28: after the main loop every stable nuclide the target list selects
\* has its own entry in n_targets and in z_targets, none overwritten, and
\* draw_target_border draws its two horizontal border lines along its own
\* cell: in its Z row, over its N column, for any number of target elements
\* and any order of the data.
C28_TargetOutlines ==
    LoopDone =>
        /\ Len(z_targets) >= Cardinality(SelectedTargets)
        /\ \A n \in SelectedTargets :
            /\ \E i \in DOMAIN n_targets :
                   n_targets[i].key = n.N /\ n_targets[i].val = <<n.Z, n.Z>>
            /\ \E i \in DOMAIN z_targets : z_targets[i].val = <<n.N, n.N>>
            /\ BorderAt(Position(n, n_limits, z_limits)[1] - 1,
                        Position(n, n_limits, z_limits)[1] - 1 + SIZE_FIELD,
                        Position(n, n_limits, z_limits)[2] - 1)
            /\ BorderAt(Position(n, n_limits, z_limits)[1] - 1,
                        Position(n, n_limits, z_limits)[1] - 1 + SIZE_FIELD,
                        Position(n, n_limits, z_limits)[2] - 1 + SIZE_FIELD)

\* C29: draw_numbers never reads the shape grid out of bounds, whatever
\* grid the main loop built, a column or row without any nuclide included:
\* no IndexError leaves it.
C29_NumbersInBounds == ~(pc = "aborted" /\ raised = "IndexError")

\* a list was given and draw_nuclide has been called for data[cursor - 1]
ListedCall ==
    /\ pc # "setup"
    /\ cursor > 1
    /\ (args.list_of_targets # <<>> \/ args.list_of_products # <<>>)

\* C30: with a target or product list, at the call of draw_nuclide for a
\* nuclide args.names and args.halflives are true exactly when that nuclide
\* matches an entry of a list; the value set for one nuclide does not carry
\* over to the next.
C30_FlagsScoped ==
    ListedCall =>
        /\ args.names = (ProductMatch(data[cursor - 1]) \/ TargetMatch(data[cursor - 1]))
        /\ args.halflives = (ProductMatch(data[cursor - 1]) \/ TargetMatch(data[cursor - 1]))

\* C30 witness: the call for a nuclide that matches no entry, right after
\* the call for one that matched, is made with both flags false
C30_Witness ==
    /\ ListedCall
    /\ cursor > 2
    /\ ProductMatch(data[cursor - 2]) \/ TargetMatch(data[cursor - 2])
    /\ ~(ProductMatch(data[cursor - 1]) \/ TargetMatch(data[cursor - 1]))
    /\ ~args.names
    /\ ~args.halflives
    /\ calls = cursor - 1

=============================================================================
